---- MODULE Spec2Model ----
(***************************************************************************)
(* Model of the captcha controller of rainyun.py (process_captcha and the  *)
(* functions it calls) as a state machine.  One run of the machine is one  *)
(* top-level call process_captcha(); the recursion of the source is kept   *)
(* as an explicit stack of call sites.                                     *)
(***************************************************************************)
EXTENDS Integers, Sequences, FiniteSets, TLC

(***************************************************************************)
(* Program constants.                                                      *)
(***************************************************************************)
\* rainyun.py:218  "if retry_count >= 5"
Cap == 5
\* rainyun.py:238  "for j in range(3)" (also 250 and 326)
NumSprites == 3
\* rainyun.py:341  "len(d) < 6"
MinKeys == 6

(***************************************************************************)
(* Bounds of the model.                                                    *)
(***************************************************************************)
\* longest list the detector returns
MaxBoxes == 3
\* largest width or height of the raw image, in pixels, of the mapping alone
MaxRaw == 8
\* largest width or height of the displayed element, in pixels, of the same
MaxDisplay == 6
\* most SIFT descriptors of an image, of compute_similarity alone
MaxDescriptors == 3
\* most servers of the account, of check_and_renew alone
MaxServers == 2
\* most advances of the clock during one check_and_renew
MaxTicks == 2

(***************************************************************************)
(* Exceptions.  The except clause of process_captcha (line 284) names      *)
(* three classes; every other subclass of Exception is "OtherException".   *)
(***************************************************************************)
RetryableExc == {"TimeoutException", "ValueError", "CaptchaRetryableError"}

IsRetryable(e) == e \in RetryableExc

(***************************************************************************)
(* Values of the result dictionary.  Python compares dictionary keys by    *)
(* value and type family: a float never equals a str.  A float is kept as  *)
(* a reduced fraction <<num, den>>, a str as its sequence of characters.   *)
(***************************************************************************)
RECURSIVE GCD(_, _)
GCD(a, b) == IF b = 0 THEN a ELSE GCD(b, a % b)

Fraction(n, d) == IF n = 0 THEN <<0, 1>> ELSE <<n \div GCD(n, d), d \div GCD(n, d)>>

FloatVal(f) == [t |-> "float", v |-> f]

StrVal(s) == [t |-> "str", v |-> s]

\* a < b on floats kept as fractions with positive denominators
FloatLess(a, b) == a[1] * b[2] < b[1] * a[2]

DigitChars == <<"0", "1", "2", "3", "4", "5", "6", "7", "8", "9">>

\* str(n) for n >= 0, as the sequence of its characters
RECURSIVE Digits(_)
Digits(n) == IF n < 10 THEN <<DigitChars[n + 1]>>
             ELSE Digits(n \div 10) \o <<DigitChars[(n % 10) + 1]>>

\* f"{int((x1 + x2) / 2)},{int((y1 + y2) / 2)}" for a box of non-negative corners
FormatPosition(box) ==
    Digits((box[1] + box[3]) \div 2) \o <<",">> \o Digits((box[2] + box[4]) \div 2)

\* int(text) for the decimal digits of a non-negative number; -1 stands for
\* the ValueError that int raises on anything else
DigitValue(c) == CHOOSE n \in 0..9 : DigitChars[n + 1] = c

IsDigit(c) == \E n \in 1..10 : DigitChars[n] = c

RECURSIVE ParseDigits(_, _)
ParseDigits(text, acc) ==
    IF text = <<>> THEN acc
    ELSE ParseDigits(Tail(text), 10 * acc + DigitValue(Head(text)))

ParseInt(text) ==
    IF text # <<>> /\ \A i \in 1..Len(text) : IsDigit(text[i])
    THEN ParseDigits(text, 0)
    ELSE -1

\* index of the first "," of the text at or after position i, 0 if none
RECURSIVE FindComma(_, _)
FindComma(text, i) ==
    IF i > Len(text) THEN 0
    ELSE IF text[i] = "," THEN i
    ELSE FindComma(text, i + 1)

\* positon.split(",")[0] and positon.split(",")[1] (line 257)
SplitFirst(text) ==
    IF FindComma(text, 1) = 0 THEN text ELSE SubSeq(text, 1, FindComma(text, 1) - 1)

SplitSecond(text) ==
    LET c1 == FindComma(text, 1)
        c2 == FindComma(text, c1 + 1)
    IN  IF c2 = 0 THEN SubSeq(text, c1 + 1, Len(text)) ELSE SubSeq(text, c1 + 1, c2 - 1)

\* x, y = int(positon.split(",")[0]), int(positon.split(",")[1])
ParsePosition(text) == <<ParseInt(SplitFirst(text)), ParseInt(SplitSecond(text))>>

(***************************************************************************)
(* Style strings and their parsers (lines 187-214).  A style is the        *)
(* sequence of its characters; the empty sequence also stands for the      *)
(* attribute that is missing (None): "not style" is true for both.  A      *)
(* parser gives [kind |-> "ok", val |-> the group] or raises ValueError.   *)
(***************************************************************************)
Ok(v) == [kind |-> "ok", val |-> v]

Raised(e) == [kind |-> e]

StartsWith(text, i, lit) ==
    /\ i + Len(lit) - 1 <= Len(text)
    /\ SubSeq(text, i, i + Len(lit) - 1) = lit

\* \s* : the first index at or after i that holds no blank
RECURSIVE SkipBlanks(_, _)
SkipBlanks(text, i) ==
    IF i <= Len(text) /\ text[i] = " " THEN SkipBlanks(text, i + 1) ELSE i

\* [\d.] of the regular expressions of lines 201 and 211
IsNumChar(c) == IsDigit(c) \/ c = "."

\* [\d.]+ : the first index at or after i that holds no digit and no dot
RECURSIVE RunEnd(_, _)
RunEnd(text, i) ==
    IF i <= Len(text) /\ IsNumChar(text[i]) THEN RunEnd(text, i + 1) ELSE i

WidthKey == <<"w", "i", "d", "t", "h", ":">>

HeightKey == <<"h", "e", "i", "g", "h", "t", ":">>

PxUnit == <<"p", "x">>

\* the group of key\s*([\d.]+)px matched at index i, <<>> if it does not match
SizeGroupAt(text, i, key) ==
    LET a == SkipBlanks(text, i + Len(key))
        b == RunEnd(text, a)
    IN  IF StartsWith(text, i, key) /\ b > a /\ StartsWith(text, b, PxUnit)
        THEN SubSeq(text, a, b - 1)
        ELSE <<>>

\* re.search: the group of the leftmost match at or after index i
RECURSIVE SearchSize(_, _, _)
SearchSize(text, i, key) ==
    IF i > Len(text) THEN <<>>
    ELSE IF SizeGroupAt(text, i, key) # <<>> THEN SizeGroupAt(text, i, key)
    ELSE SearchSize(text, i + 1, key)

get_width_from_style_Default(style) ==
    IF style = <<>> \/ SearchSize(style, 1, WidthKey) = <<>> THEN Ok(<<"0">>)
    ELSE Ok(SearchSize(style, 1, WidthKey))

\* lines 197-204
get_width_from_style(style) ==
    IF style = <<>> THEN Raised("ValueError")
    ELSE IF SearchSize(style, 1, WidthKey) = <<>> THEN Raised("ValueError")
    ELSE Ok(SearchSize(style, 1, WidthKey))

\* lines 207-214
get_height_from_style(style) ==
    IF style = <<>> THEN Raised("ValueError")
    ELSE IF SearchSize(style, 1, HeightKey) = <<>> THEN Raised("ValueError")
    ELSE Ok(SearchSize(style, 1, HeightKey))

UrlKey == <<"u", "r", "l", "(">>

\* [\"\'\\ ]? of the regular expression of line 191
IsUrlQuote(c) == c \in {"\"", "'", "\\", " "}

\* (.*?)[\"\'\\ ]?\) : the first index at or after i where the lazy group can
\* end, 0 if there is none
RECURSIVE UrlGroupEnd(_, _)
UrlGroupEnd(text, i) ==
    IF i > Len(text) THEN 0
    ELSE IF text[i] = ")" THEN i
    ELSE IF IsUrlQuote(text[i]) /\ i + 1 <= Len(text) /\ text[i + 1] = ")" THEN i
    ELSE UrlGroupEnd(text, i + 1)

\* the match of the expression at index i: the optional quote after "url(" is
\* taken when it is there (the rest matches the same ")" either way)
UrlMatchAt(text, i) ==
    LET a == i + Len(UrlKey)
        b == IF a <= Len(text) /\ IsUrlQuote(text[a]) /\ UrlGroupEnd(text, a + 1) # 0
             THEN a + 1 ELSE a
        e == UrlGroupEnd(text, b)
    IN  IF StartsWith(text, i, UrlKey) /\ e # 0
        THEN Ok(SubSeq(text, b, e - 1))
        ELSE Raised("nomatch")

RECURSIVE SearchUrl(_, _)
SearchUrl(text, i) ==
    IF i > Len(text) THEN Raised("nomatch")
    ELSE IF UrlMatchAt(text, i).kind = "ok" THEN UrlMatchAt(text, i)
    ELSE SearchUrl(text, i + 1)

\* lines 187-194
get_url_from_style(style) ==
    IF style = <<>> THEN Raised("ValueError")
    ELSE IF SearchUrl(style, 1).kind # "ok" THEN Raised("ValueError")
    ELSE SearchUrl(style, 1)

\* float(text) for a text of digits and dots (line 259): a number needs one
\* digit at least and one dot at most; the value is kept as a fraction
RECURSIVE CountDots(_)
CountDots(text) ==
    IF text = <<>> THEN 0
    ELSE (IF Head(text) = "." THEN 1 ELSE 0) + CountDots(Tail(text))

RECURSIVE DropDots(_)
DropDots(text) ==
    IF text = <<>> THEN <<>>
    ELSE IF Head(text) = "." THEN DropDots(Tail(text))
    ELSE <<Head(text)>> \o DropDots(Tail(text))

RECURSIVE Pow10(_)
Pow10(n) == IF n = 0 THEN 1 ELSE 10 * Pow10(n - 1)

\* digits after the dot
RECURSIVE Decimals(_)
Decimals(text) ==
    IF text = <<>> THEN 0
    ELSE IF Head(text) = "." THEN Len(text) - 1
    ELSE Decimals(Tail(text))

ParseFloat(text) ==
    IF CountDots(text) <= 1 /\ DropDots(text) # <<>>
    THEN Ok(Fraction(ParseDigits(DropDots(text), 0), Pow10(Decimals(text))))
    ELSE Raised("ValueError")

\* float(get_width_from_style(style)) and float(get_height_from_style(style))
ParseSize(parsed) ==
    IF parsed.kind = "ok" THEN ParseFloat(parsed.val) ELSE parsed

(***************************************************************************)
(* The coordinate mapping of lines 258-261 on exact fractions <<n, d>>,    *)
(* d > 0 (the rounding of doubles is not modelled; halving and the         *)
(* product with 1/2 are exact in doubles).                                 *)
(***************************************************************************)
RatNeg(a) == <<0 - a[1], a[2]>>

RatAdd(a, b) == <<a[1] * b[2] + b[1] * a[2], a[2] * b[2]>>

RatMul(a, b) == <<a[1] * b[1], a[2] * b[2]>>

\* int(f): the fraction truncated towards zero
Trunc(a) == IF a[1] >= 0 THEN a[1] \div a[2] ELSE 0 - ((0 - a[1]) \div a[2])

MapOffset_TopLeft(x, raw, size) ==
    Trunc(RatMul(<<x, raw>>, size))

\* one axis: int(float(-size / 2) + x / raw * size)
MapOffset(x, raw, size) ==
    Trunc(RatAdd(RatNeg(RatMul(size, <<1, 2>>)), RatMul(<<x, raw>>, size)))

SimKey(j) == CASE j = 1 -> "sprite_1.similarity"
               [] j = 2 -> "sprite_2.similarity"
               [] j = 3 -> "sprite_3.similarity"

PosKey(j) == CASE j = 1 -> "sprite_1.position"
               [] j = 2 -> "sprite_2.position"
               [] j = 3 -> "sprite_3.position"

EmptyDict == [k \in {} |-> 0]

\* d[k] = v of a Python dict
Put(d, k, v) == [x \in (DOMAIN d) \cup {k} |-> IF x = k THEN v ELSE d[x]]

(***************************************************************************)
(* compute_similarity (lines 350-370).  n1 and n2 are the numbers of SIFT  *)
(* descriptors of the two images (0: detectAndCompute gave None), good the *)
(* number of matches that pass the 0.8 ratio filter; knnMatch returns one  *)
(* entry per descriptor of the first image.                                *)
(***************************************************************************)
compute_similarity_ByTrain(n1, n2, good) ==
    IF n1 = 0 \/ n2 = 0 \/ good = 0 THEN <<Fraction(0, 1), 0>>
    ELSE <<Fraction(good, n2), good>>

compute_similarity(n1, n2, good) ==
    IF n1 = 0 \/ n2 = 0 THEN <<Fraction(0, 1), 0>>
    ELSE IF good = 0 THEN <<Fraction(0, 1), 0>>
    ELSE <<Fraction(good, n1), good>>

\* line 364: a match is kept when it has two neighbours and the distance of
\* the first is less than 0.8 times the distance of the second
Passes(m_n) == Len(m_n) = 2 /\ 10 * m_n[1] < 8 * m_n[2]

Good(matches) == Cardinality({i \in 1..Len(matches) : Passes(matches[i])})

\* lines 351-370 on two files.  A file is an image with a number of SIFT
\* descriptors, or cannot be read: imread gives None and detectAndCompute
\* raises cv2.error on it.  matches is the answer of knnMatch, one entry per
\* descriptor of the first image.
SimilarityOfFiles(img1, img2, matches) ==
    IF ~img1.readable \/ ~img2.readable THEN [kind |-> "cv2.error"]
    ELSE [kind |-> "ok",
          val |-> compute_similarity(img1.descriptors, img2.descriptors, Good(matches))]

(***************************************************************************)
(* check_answer (lines 338-347): a dictionary with fewer than 6 keys is    *)
(* rejected; otherwise the dictionary is flipped (value -> key) and        *)
(* accepted when no two keys held the same value.                          *)
(***************************************************************************)
Flipped(d) == {d[k] : k \in DOMAIN d}

check_answer_NoLength(d) ==
    Cardinality(DOMAIN d) = Cardinality(Flipped(d))

check_answer_LengthOnly(d) ==
    ~(DOMAIN d = {} \/ Cardinality(DOMAIN d) < MinKeys)

check_answer(d) ==
    IF DOMAIN d = {} \/ Cardinality(DOMAIN d) < MinKeys THEN FALSE
    ELSE Cardinality(DOMAIN d) = Cardinality(Flipped(d))

(***************************************************************************)
(* check_captcha (lines 320-334) on the answers the classifier gives for   *)
(* the three thirds of the sprite strip: the thirds are classified in      *)
(* order and the first "0" or "1" ends the check.  Classified(labels) is   *)
(* the prefix of answers the code asked for.                               *)
(***************************************************************************)
RejectLabels == {"0", "1"}

RECURSIVE FirstRejected(_, _)
FirstRejected(labels, i) ==
    IF i > Len(labels) THEN 0
    ELSE IF labels[i] \in RejectLabels THEN i
    ELSE FirstRejected(labels, i + 1)

Classified(labels) ==
    IF FirstRejected(labels, 1) = 0 THEN labels
    ELSE SubSeq(labels, 1, FirstRejected(labels, 1))

check_captcha_ZeroOnly(readable, labels) ==
    readable /\ \A i \in 1..Len(labels) : labels[i] # "0"

check_captcha(readable, labels) ==
    readable /\ FirstRejected(labels, 1) = 0

(***************************************************************************)
(* Inputs from the collaborators.                                          *)
(***************************************************************************)
\* answers of ocr.classification; "10" is neither "0" nor "1"
Labels == {"0", "1", "10"}

\* boxes (x1, y1, x2, y2) the detector may return, in one order; the first
\* and the last are different boxes with the same centre
BoxOrder == <<<<0, 0, 4, 4>>, <<10, 0, 15, 4>>, <<20, 10, 24, 14>>, <<1, 1, 4, 4>>>>

BoxPool == {BoxOrder[i] : i \in 1..Len(BoxOrder)}

\* lists of different boxes, in any order, of at most MaxBoxes boxes
BoxLists ==
    UNION {{b \in [1..n -> BoxPool] : \A i, j \in 1..n : i # j => b[i] # b[j]} : n \in 0..MaxBoxes}

\* the detector's answers in the runs of the whole controller: 0, 1, ... boxes
ControllerLists == {SubSeq(BoxOrder, 1, n) : n \in 0..MaxBoxes} \cap BoxLists

\* descriptor counts handed to compute_similarity in the controller's runs:
\* a sprite without descriptors, and one or both of two descriptors matched
MatcherCases == {<<0, 2, 0>>, <<2, 2, 1>>, <<2, 2, 2>>}

Scores == {compute_similarity(q[1], q[2], q[3])[1] : q \in MatcherCases}

\* class attribute of #tcOperation after the submission
UiClasses == {"show-success", "show-error"}

\* captcha.shape[1], captcha.shape[0] of the background (line 258); the centre
\* of the third box of BoxOrder is the centre of the first shape
Shapes == {<<44, 24>>, <<50, 30>>}

ControllerShapes == {<<44, 24>>}

\* style attributes of #slideBg, made of a background part, a width part and
\* a height part, each of which may be missing or malformed
UrlParts ==
    {<<>>,
     <<"b", "a", "c", "k", "g", "r", "o", "u", "n", "d", "-", "i", "m", "a", "g", "e", ":", " ", "u", "r", "l", "(", "\"", "a", "\"", ")", ";">>,
     <<"u", "r", "l", "(", "b", ")">>,
     <<"u", "r", "l", "(">>}

WidthParts ==
    {<<>>,
     <<"w", "i", "d", "t", "h", ":", " ", "8", "p", "x", ";">>,
     <<"w", "i", "d", "t", "h", ":", "2", "0", ".", "5", "p", "x", ";">>,
     <<"w", "i", "d", "t", "h", ":", " ", ".", "p", "x", ";">>,
     <<"m", "a", "x", "-", "w", "i", "d", "t", "h", ":", " ", "6", "p", "x", ";">>}

HeightParts ==
    {<<>>,
     <<"h", "e", "i", "g", "h", "t", ":", " ", "4", "p", "x", ";">>,
     <<"h", "e", "i", "g", "h", "t", ":", "1", "0", "p", "x">>,
     <<"l", "i", "n", "e", "-", "h", "e", "i", "g", "h", "t", ":", "1", ".", "2", ".", "3", "p", "x", ";">>}

StylePool == {u \o w \o h : u \in UrlParts, w \in WidthParts, h \in HeightParts}

\* the styles read by the click loop taken alone
PointerStyles == {w \o h : w \in WidthParts, h \in HeightParts}

\* the styles read by the click loop in the runs of the whole controller: a
\* complete one, the empty one and one without a width
ControllerStyles ==
    {<<"w", "i", "d", "t", "h", ":", " ", "8", "p", "x", ";", "h", "e", "i", "g", "h", "t", ":", " ", "4", "p", "x", ";">>,
     <<>>,
     <<"h", "e", "i", "g", "h", "t", ":", " ", "4", "p", "x", ";">>}

(***************************************************************************)
(* The scratch directory "temp".  files gives, for every file of the       *)
(* directory, the number of the attempt (the value of acquisitions) that   *)
(* wrote it, 0 for a file left by an earlier run of the program; purged is *)
(* the number of the last attempt whose removal loop (300-304) has ended.  *)
(* The program makes no subdirectory of temp, and none is modelled.        *)
(***************************************************************************)
CaptchaFile == <<"captcha.jpg", 0>>

SpriteStrip == <<"sprite.jpg", 0>>

SpriteFile(j) == <<"sprite_j.jpg", j>>

SpecFile(i) == <<"spec_i.jpg", i>>

NoFiles == [f \in {} |-> 0]

\* files left in the directory by an earlier run of the program
Leftovers ==
    [f \in {CaptchaFile, SpriteStrip} \cup {SpriteFile(j) : j \in 1..NumSprites}
            \cup {SpecFile(i) : i \in 1..MaxBoxes} |-> 0]

Purge_Keep(files) == files

\* lines 300-304: every file of the directory is removed
Purge(files) == NoFiles

\* open(path, "wb") or cv2.imwrite in attempt number n
WriteFile(t, f, n) == [t EXCEPT !.files = Put(t.files, f, n)]

\* the file is there and was not written by attempt number n
Stale(t, f, n) == f \in DOMAIN t.files /\ t.files[f] # n

\* cv2.imwrite of line 329 for the thirds 1..k, except the third skip (0: none)
\* for which imwrite writes nothing and returns False
RECURSIVE WriteSprites(_, _, _, _)
WriteSprites(t, k, skip, n) ==
    IF k = 0 THEN t
    ELSE IF k = skip THEN WriteSprites(t, k - 1, skip, n)
    ELSE WriteFile(WriteSprites(t, k - 1, skip, n), SpriteFile(k), n)

\* the files of an attempt number n that has passed check_captcha
AttemptFiles(n) ==
    [f \in {CaptchaFile, SpriteStrip} \cup {SpriteFile(j) : j \in 1..NumSprites} |-> n]

(***************************************************************************)
(* State.                                                                  *)
(*   pc, retry_count, stack, exc, retval: the control state.  stack holds  *)
(*     the call site of every enclosing call of process_captcha: "body"    *)
(*     for line 283, "handler" for line 293.  pc, retry_count and the      *)
(*     attempt variables are those of the innermost call.                  *)
(*   acquisitions, refreshClicks: calls of download_captcha_img and        *)
(*     performed clicks of the refresh control, in the whole run.          *)
(*   spriteRead .. uiClass: what the most recent attempt did.  The locals  *)
(*     of an enclosing call are dead once it has made its recursive call   *)
(*     (both calls are in return position), so they are not kept.          *)
(*   unexpectedRaised, refreshFailed, exhausted: history of the run.       *)
(***************************************************************************)
VARIABLES pc, retry_count, stack, exc, retval,
          acquisitions, refreshClicks,
          spriteRead, ocrLabels, bboxes, boxIdx, result, clickIdx,
          detCalled, simCalls, clicks, submitted, uiClass,
          unexpectedRaised, refreshFailed, exhausted,
          scoreLog, clickLog, shape, style, geom, geomAt,
          temp, staleRead, call, ret, sm, run

ctl == <<pc, retry_count, stack, exc, retval>>

counters == <<acquisitions, refreshClicks>>

scoring == <<scoreLog>>

pointer == <<clickLog, shape, style, geom, geomAt>>

attempt == <<spriteRead, ocrLabels, bboxes, boxIdx, result, clickIdx,
             detCalled, simCalls, clicks, submitted, uiClass, scoring, pointer>>

hist == <<unexpectedRaised, refreshFailed, exhausted>>

scratch == <<temp, staleRead>>

pure == <<call, ret>>

aux == <<scratch, pure, sm, run>>

vars == <<ctl, counters, attempt, hist, aux>>

\* the locals of a call that has not done anything yet
FreshAttempt ==
    /\ spriteRead = FALSE
    /\ ocrLabels = <<>>
    /\ bboxes = <<>>
    /\ boxIdx = 1
    /\ result = EmptyDict
    /\ clickIdx = 1
    /\ detCalled = FALSE
    /\ simCalls = 0
    /\ clicks = 0
    /\ submitted = FALSE
    /\ uiClass = "none"
    /\ scoreLog = <<>>
    /\ clickLog = <<>>
    /\ shape = <<0, 0>>
    /\ style = <<>>
    /\ geom = <<>>
    /\ geomAt = 0

FreshAttemptNext ==
    /\ spriteRead' = FALSE
    /\ ocrLabels' = <<>>
    /\ bboxes' = <<>>
    /\ boxIdx' = 1
    /\ result' = EmptyDict
    /\ clickIdx' = 1
    /\ detCalled' = FALSE
    /\ simCalls' = 0
    /\ clicks' = 0
    /\ submitted' = FALSE
    /\ uiClass' = "none"
    /\ scoreLog' = <<>>
    /\ clickLog' = <<>>
    /\ shape' = <<0, 0>>
    /\ style' = <<>>
    /\ geom' = <<>>
    /\ geomAt' = 0

\* no call of a pure function is being evaluated
NoCall == call = [fn |-> "none"] /\ ret = [kind |-> "none"]

\* ServerManager.check_and_renew is not running
NoServerRun == [pc |-> "idle"]

\* run() is not modelled: the controller is called alone
NotRunning == [pc |-> "idle"]

\* the top-level call process_captcha() of lines 131 and 460
Init ==
    /\ pc = "entry"
    /\ retry_count = 0
    /\ stack = <<>>
    /\ exc = "none"
    /\ retval = "none"
    /\ acquisitions = 0
    /\ refreshClicks = 0
    /\ FreshAttempt
    /\ unexpectedRaised = FALSE
    /\ refreshFailed = FALSE
    /\ exhausted = FALSE
    /\ temp \in {[files |-> NoFiles, purged |-> 0], [files |-> Leftovers, purged |-> 0]}
    /\ staleRead = FALSE
    /\ NoCall
    /\ sm = NoServerRun
    /\ run = NotRunning

(***************************************************************************)
(* Raising inside the try body of the innermost call (lines 221-283).      *)
(***************************************************************************)
RaiseInBody(e) ==
    /\ pc' = "raised"
    /\ exc' = e
    /\ unexpectedRaised' = (unexpectedRaised \/ ~IsRetryable(e))
    /\ UNCHANGED <<retry_count, stack, retval, refreshClicks, refreshFailed, exhausted>>

\* lines 218-221: the cap check at the start of every call
CapReached_Late(rc) == rc >= Cap + 2

CapReached_OffByOne(rc) == rc > Cap

CapReached(rc) == rc >= Cap

Enter ==
    /\ pc = "entry"
    /\ IF CapReached(retry_count)
       THEN /\ retval' = "False"
            /\ pc' = "return"
            /\ exhausted' = TRUE
       ELSE /\ pc' = "download"
            /\ UNCHANGED <<retval, exhausted>>
    /\ UNCHANGED <<retry_count, stack, exc, counters, attempt, unexpectedRaised, refreshFailed>>
    /\ UNCHANGED aux

\* lines 222 and 299-317: download_captcha_img().  It returns, or a wait times
\* out (305, 312), or the style has no url (307), or a download fails (311,
\* 317), or something else raises (os.remove, open, a stale element).
DownloadOutcomes == {"ok", "TimeoutException", "ValueError", "CaptchaRetryableError", "OtherException"}

\* how many of captcha.jpg, sprite.jpg are written (lines 310, 316) before the
\* call ends with outcome o: the waits are at 305 and 312, the url is parsed
\* at 307, the downloads fail at 311 and 317
DownloadWrites(o) ==
    CASE o = "ok" -> {2}
      [] o = "TimeoutException" -> {0, 1}
      [] o = "ValueError" -> {0}
      [] o = "CaptchaRetryableError" -> {0, 1}
      [] o = "OtherException" -> {0, 1, 2}

\* the directory after the removal loop and k downloads of attempt number n
Downloaded(t, k, n) ==
    LET purged == [files |-> Purge(t.files), purged |-> n]
    IN  IF k = 0 THEN purged
        ELSE IF k = 1 THEN WriteFile(purged, CaptchaFile, n)
        ELSE WriteFile(WriteFile(purged, CaptchaFile, n), SpriteStrip, n)

DownloadCaptchaImg ==
    /\ pc = "download"
    /\ acquisitions' = acquisitions + 1
    /\ \/ \E o \in DownloadOutcomes :
             /\ \E k \in DownloadWrites(o) : temp' = Downloaded(temp, k, acquisitions + 1)
             /\ IF o = "ok"
                THEN /\ pc' = "quality"
                     /\ UNCHANGED <<retry_count, stack, exc, retval, refreshClicks, hist>>
                ELSE RaiseInBody(o)
       \/ \* os.listdir or os.remove raises (301, 304): nothing more is done
          /\ temp' = temp
          /\ RaiseInBody("OtherException")
    /\ UNCHANGED attempt
    /\ UNCHANGED <<staleRead, pure, sm, run>>

\* lines 223 and 320-334: check_captcha().  The strip cannot be read (323),
\* or the classifier answers for the thirds, or cv2 or the classifier raises.
\* The thirds are written to sprite_1.jpg .. and read back (329-331); imwrite
\* may write nothing for one third (skip): open then finds no file and raises,
\* or finds a file that was there before.
CheckCaptchaFrom(answers) ==
    /\ pc = "quality"
    /\ \/ \E readable \in BOOLEAN, labels \in answers, skip \in 0..NumSprites :
             LET asked == IF readable THEN Classified(labels) ELSE <<>>
                 failed == skip \in 1..Len(asked)
             IN  IF failed /\ SpriteFile(skip) \notin DOMAIN temp.files
                 THEN /\ temp' = WriteSprites(temp, skip - 1, 0, acquisitions)
                      /\ RaiseInBody("OtherException")
                      /\ UNCHANGED <<acquisitions, spriteRead, ocrLabels, staleRead>>
                 ELSE /\ spriteRead' = readable
                      /\ ocrLabels' = asked
                      /\ pc' = (IF check_captcha(readable, labels) THEN "detect" ELSE "refresh_body")
                      /\ temp' = WriteSprites(temp, Len(asked), skip, acquisitions)
                      /\ staleRead' = (\/ staleRead
                                       \/ Stale(temp, SpriteStrip, acquisitions)
                                       \/ failed /\ Stale(temp, SpriteFile(skip), acquisitions))
                      /\ UNCHANGED <<retry_count, stack, exc, retval, counters, hist>>
       \/ /\ RaiseInBody("OtherException")
          /\ UNCHANGED <<acquisitions, spriteRead, ocrLabels, scratch>>
    /\ UNCHANGED <<bboxes, boxIdx, result, clickIdx, detCalled, simCalls, clicks, submitted, uiClass>>
    /\ UNCHANGED <<scoring, pointer, pure, sm, run>>

CheckCaptcha == CheckCaptchaFrom([1..NumSprites -> Labels])

\* lines 225-232: the background is read back (None: CaptchaRetryableError,
\* line 229) and handed to the detector, which returns a list of boxes.
DetectFrom(lists) ==
    /\ pc = "detect"
    /\ \/ /\ \E b \in lists :
               /\ bboxes' = b
               /\ pc' = (IF Len(b) = 0 THEN "answer" ELSE "match")
          /\ shape' \in ControllerShapes
          /\ detCalled' = TRUE
          /\ staleRead' = (staleRead \/ Stale(temp, CaptchaFile, acquisitions))
          /\ UNCHANGED <<retry_count, stack, exc, retval, refreshClicks, hist>>
       \/ /\ \E e \in {"CaptchaRetryableError", "OtherException"} : RaiseInBody(e)
          /\ UNCHANGED <<bboxes, detCalled, shape, staleRead>>
    /\ UNCHANGED <<acquisitions, spriteRead, ocrLabels, boxIdx, result, clickIdx,
                   simCalls, clicks, submitted, uiClass>>
    /\ UNCHANGED <<scoring, clickLog, style, geom, geomAt, temp, pure, sm, run>>

Detect == DetectFrom(ControllerLists)

\* lines 239-248: sprite j scored against one box; the entry of sprite j is
\* replaced only by a strictly greater similarity
UpdateSprite_KeepLast(d, j, sim, box) ==
    IF SimKey(j) \in DOMAIN d /\ FloatLess(sim, d[SimKey(j)].v)
    THEN d
    ELSE Put(Put(d, SimKey(j), FloatVal(sim)), PosKey(j), StrVal(FormatPosition(box)))

UpdateSprite(d, j, sim, box) ==
    IF SimKey(j) \in DOMAIN d
    THEN IF FloatLess(d[SimKey(j)].v, sim)
         THEN Put(Put(d, SimKey(j), FloatVal(sim)), PosKey(j), StrVal(FormatPosition(box)))
         ELSE d
    ELSE Put(Put(d, SimKey(j), FloatVal(sim)), PosKey(j), StrVal(FormatPosition(box)))

ScoreBox_TwoSprites(d, box, sims, n) ==
    UpdateSprite(UpdateSprite(d, 1, sims[1], box), 2, sims[2], box)

\* lines 238-248: the inner loop, sprites 1..n against one box
RECURSIVE ScoreBox(_, _, _, _)
ScoreBox(d, box, sims, n) ==
    IF n = 0 THEN d
    ELSE UpdateSprite(ScoreBox(d, box, sims, n - 1), n, sims[n], box)

\* lines 234-248: one pass of the outer loop, for box number boxIdx, in which
\* the matcher gives the three sprites the similarities sims
ScorePass(sims) ==
    /\ result' = ScoreBox(result, bboxes[boxIdx], sims, NumSprites)
    /\ simCalls' = simCalls + NumSprites
    /\ boxIdx' = boxIdx + 1
    /\ pc' = (IF boxIdx = Len(bboxes) THEN "answer" ELSE "match")
    /\ UNCHANGED <<retry_count, stack, exc, retval, refreshClicks, hist>>

\* lines 237 and 239: the crop of box number boxIdx is written to its file
\* (wrote), or imwrite writes nothing and a file that was there before is
\* read; then the files of the three sprites and of the crop are read
CropPass(wrote) ==
    /\ wrote \/ SpecFile(boxIdx) \in DOMAIN temp.files
    /\ temp' = (IF wrote THEN WriteFile(temp, SpecFile(boxIdx), acquisitions) ELSE temp)
    /\ staleRead' = (\/ staleRead
                     \/ ~wrote /\ Stale(temp, SpecFile(boxIdx), acquisitions)
                     \/ \E j \in 1..NumSprites : Stale(temp, SpriteFile(j), acquisitions))

\* the pass raises: cv2 on an empty crop, or on a crop file that is not there
MatchBoxFrom(tables) ==
    /\ pc = "match"
    /\ boxIdx <= Len(bboxes)
    /\ \/ \E sims \in tables, wrote \in BOOLEAN :
             ScorePass(sims) /\ CropPass(wrote)
       \/ /\ RaiseInBody("OtherException")
          /\ UNCHANGED <<result, simCalls, boxIdx, scratch>>
    /\ UNCHANGED <<acquisitions, spriteRead, ocrLabels, bboxes, clickIdx, detCalled,
                   clicks, submitted, uiClass>>
    /\ UNCHANGED <<scoring, pointer, pure, sm, run>>

MatchBox == MatchBoxFrom([1..NumSprites -> Scores])

\* the same pass of the outer loop, with the similarities the matcher gave
\* written to scoreLog (one entry per box, in detector order)
MatchBoxLogged ==
    /\ pc = "match"
    /\ boxIdx <= Len(bboxes)
    /\ \E sims \in [1..NumSprites -> Scores] :
          /\ ScorePass(sims)
          /\ scoreLog' = Append(scoreLog, sims)
    /\ CropPass(TRUE)
    /\ UNCHANGED <<acquisitions, spriteRead, ocrLabels, bboxes, clickIdx, detCalled,
                   clicks, submitted, uiClass>>
    /\ UNCHANGED <<pointer, pure, sm, run>>

\* lines 249 and 274-275: the assignment is checked
CheckAnswerStep ==
    /\ pc = "answer"
    /\ pc' = (IF check_answer(result) THEN "click" ELSE "refresh_body")
    /\ UNCHANGED <<retry_count, stack, exc, retval, counters, attempt, hist>>
    /\ UNCHANGED aux

\* lines 250-259: the head of one pass of the click loop, for sprite number
\* clickIdx.  The wait for #slideBg times out (255), or get_attribute raises
\* (256), or the style is read and its width and height are parsed (259):
\* a style that does not parse raises ValueError.
ReadOutcomes == {"style", "TimeoutException", "OtherException"}

ReadStyleFrom(pool) ==
    /\ pc = "click"
    /\ clickIdx <= NumSprites
    /\ \E o \in ReadOutcomes :
          IF o = "style"
          THEN \E st \in pool :
                  LET width == ParseSize(get_width_from_style(st))
                      height == ParseSize(get_height_from_style(st))
                  IN  /\ style' = st
                      /\ IF width.kind = "ok" /\ height.kind = "ok"
                         THEN /\ geom' = <<width.val, height.val>>
                              /\ geomAt' = clicks + 1
                              /\ pc' = "point"
                              /\ UNCHANGED <<retry_count, stack, exc, retval, refreshClicks, hist>>
                         ELSE /\ RaiseInBody("ValueError")
                              /\ UNCHANGED <<geom, geomAt>>
          ELSE /\ RaiseInBody(o)
               /\ UNCHANGED <<style, geom, geomAt>>
    /\ UNCHANGED <<acquisitions, spriteRead, ocrLabels, bboxes, boxIdx, result, clickIdx,
                   detCalled, simCalls, clicks, submitted, uiClass>>
    /\ UNCHANGED <<scoring, clickLog, shape, aux>>

ReadStyle == ReadStyleFrom(ControllerStyles)

\* the same head of the loop with every style of PointerStyles
ReadStyleAny == ReadStyleFrom(PointerStyles)

\* line 250: where the loop goes after the click of pass i
AfterClick_Early(i) == IF i >= NumSprites - 1 THEN "submit" ELSE "click"

AfterClick_NoReread(i) == IF i = NumSprites THEN "submit" ELSE "point"

AfterClick(i) == IF i = NumSprites THEN "submit" ELSE "click"

\* lines 257-262: the position of sprite clickIdx is mapped with the size
\* read in this pass and the pointer is moved there and clicked, or the
\* pointer action raises.  clickLog keeps, for every performed click, the
\* sprite, the number of the pass whose reading of the style it used, the
\* size it used and the offset.
ClickOutcomes == {"ok", "OtherException"}

Click ==
    /\ pc = "point"
    /\ \E o \in ClickOutcomes :
          IF o = "ok"
          THEN /\ LET position == ParsePosition(result[PosKey(clickIdx)].v)
                      final_x == MapOffset(position[1], shape[1], geom[1])
                      final_y == MapOffset(position[2], shape[2], geom[2])
                  IN  clickLog' = Append(clickLog, [sprite |-> clickIdx, readAt |-> geomAt,
                                                    size |-> geom, at |-> <<final_x, final_y>>])
               /\ clicks' = clicks + 1
               /\ clickIdx' = clickIdx + 1
               /\ pc' = AfterClick(clickIdx)
               /\ UNCHANGED <<retry_count, stack, exc, retval, refreshClicks, hist>>
          ELSE /\ RaiseInBody(o)
               /\ UNCHANGED <<clicks, clickIdx, clickLog>>
    /\ UNCHANGED <<acquisitions, spriteRead, ocrLabels, bboxes, boxIdx, result,
                   detCalled, simCalls, submitted, uiClass>>
    /\ UNCHANGED <<scoring, shape, style, geom, geomAt, aux>>

\* lines 263-266: the confirm button is waited for and clicked
SubmitOutcomes == {"ok", "TimeoutException", "OtherException"}

Submit ==
    /\ pc = "submit"
    /\ \E o \in SubmitOutcomes :
          IF o = "ok"
          THEN /\ submitted' = TRUE
               /\ pc' = "verify"
               /\ UNCHANGED <<retry_count, stack, exc, retval, refreshClicks, hist>>
          ELSE /\ RaiseInBody(o)
               /\ UNCHANGED submitted
    /\ UNCHANGED <<acquisitions, spriteRead, ocrLabels, bboxes, boxIdx, result, clickIdx,
                   detCalled, simCalls, clicks, uiClass>>
    /\ UNCHANGED <<scoring, pointer, aux>>

\* line 269: 'show-success' in the class attribute; "show-success" stands for
\* every attribute that contains this text, "show-error" for every other one
ShowsSuccess_Always(c) == c \in UiClasses

ShowsSuccess(c) == c = "show-success"

\* lines 267-273: the state of #tcOperation after the submission
Verify ==
    /\ pc = "verify"
    /\ \/ /\ \E c \in UiClasses :
               /\ uiClass' = c
               /\ IF ShowsSuccess(c)
                  THEN retval' = "True" /\ pc' = "return"
                  ELSE retval' = retval /\ pc' = "refresh_body"
          /\ UNCHANGED <<retry_count, stack, exc, refreshClicks, hist>>
       \/ /\ \E e \in {"TimeoutException", "OtherException"} : RaiseInBody(e)
          /\ UNCHANGED uiClass
    /\ UNCHANGED <<acquisitions, spriteRead, ocrLabels, bboxes, boxIdx, result, clickIdx,
                   detCalled, simCalls, clicks, submitted>>
    /\ UNCHANGED <<scoring, pointer, aux>>

\* lines 283 and 293: the argument of the recursive call
NextRetry_Same(rc) == rc

NextRetry(rc) == rc + 1

\* the recursive call process_captcha(retry_count + 1) made at the call site
Call(site) ==
    /\ stack' = Append(stack, site)
    /\ retry_count' = NextRetry(retry_count)
    /\ pc' = "entry"
    /\ FreshAttemptNext

\* lines 279-283: the refresh at the end of the try body.  The control is
\* found and clicked, or find_element or click raises an exception of
\* Selenium that is not TimeoutException (NoSuchElementException, ...);
\* raised inside the try body, it goes to the except clause of line 284.
RefreshBody ==
    /\ pc = "refresh_body"
    /\ \/ /\ refreshClicks' = refreshClicks + 1
          /\ Call("body")
          /\ UNCHANGED <<exc, retval, acquisitions, hist>>
       \/ /\ pc' = "raised"
          /\ exc' = "OtherException"
          /\ refreshFailed' = TRUE
          /\ UNCHANGED <<retry_count, stack, retval, counters, attempt,
                         unexpectedRaised, exhausted>>
    /\ UNCHANGED aux

\* line 284: the except clause of the innermost call
ExceptClause ==
    /\ pc = "raised"
    /\ IF IsRetryable(exc)
       THEN pc' = "refresh_handler" /\ exc' = "none"
       ELSE pc' = "unwind" /\ exc' = exc
    /\ UNCHANGED <<retry_count, stack, retval, counters, attempt, hist>>
    /\ UNCHANGED aux

\* lines 286-296: the refresh inside the handler; whatever it raises, its own
\* recursive call included, is caught by "except Exception" (294)
RefreshHandler ==
    /\ pc = "refresh_handler"
    /\ \/ /\ refreshClicks' = refreshClicks + 1
          /\ Call("handler")
          /\ UNCHANGED <<exc, retval, acquisitions, hist>>
       \/ /\ pc' = "return"
          /\ retval' = "False"
          /\ refreshFailed' = TRUE
          /\ UNCHANGED <<retry_count, stack, exc, counters, attempt,
                         unexpectedRaised, exhausted>>
    /\ UNCHANGED aux

\* an exception leaves the innermost call.  At the top level it reaches the
\* caller of process_captcha.  Otherwise it arrives at the call site of the
\* enclosing call: line 283 is inside the try body (the except clause of line
\* 284 is tried next), line 293 is inside "try ... except Exception" (295-296).
\* The locals of the enclosing call were not kept: they read as fresh.
Unwind ==
    /\ pc = "unwind"
    /\ IF stack = <<>>
       THEN /\ pc' = "done"
            /\ UNCHANGED <<retry_count, stack, exc, retval, attempt>>
       ELSE /\ stack' = SubSeq(stack, 1, Len(stack) - 1)
            /\ retry_count' = retry_count - 1
            /\ FreshAttemptNext
            /\ IF stack[Len(stack)] = "handler"
               THEN pc' = "return" /\ retval' = "False" /\ exc' = "none"
               ELSE pc' = "raised" /\ retval' = retval /\ exc' = exc
    /\ UNCHANGED <<counters, hist>>
    /\ UNCHANGED aux

\* a value leaves the innermost call; both call sites return it unchanged
Return ==
    /\ pc = "return"
    /\ IF stack = <<>>
       THEN /\ pc' = "done"
            /\ UNCHANGED <<retry_count, stack, attempt>>
       ELSE /\ stack' = SubSeq(stack, 1, Len(stack) - 1)
            /\ retry_count' = retry_count - 1
            /\ FreshAttemptNext
            /\ pc' = "return"
    /\ UNCHANGED <<exc, retval, counters, hist>>
    /\ UNCHANGED aux

Next ==
    \/ Enter
    \/ DownloadCaptchaImg
    \/ CheckCaptcha
    \/ Detect
    \/ MatchBox
    \/ CheckAnswerStep
    \/ ReadStyle
    \/ Click
    \/ Submit
    \/ Verify
    \/ RefreshBody
    \/ ExceptClause
    \/ RefreshHandler
    \/ Unwind
    \/ Return

Spec == Init /\ [][Next]_vars

(***************************************************************************)
(* The controller with every outcome of every step and fewer data: the     *)
(* classifier flags a third or none, the detector finds no box or          *)
(* MaxBoxes boxes, and each box matches no sprite, the first or the        *)
(* second.  Every call of a collaborator returns or raises, and the        *)
(* interpreter goes on: a step that can be taken is taken.                 *)
(***************************************************************************)
FewLabels == {<<"10", "10", "10">>, <<"10", "1", "10">>}

FewLists == {<<>>, SubSeq(BoxOrder, 1, MaxBoxes)}

FewTables == {<<<<0, 1>>, <<0, 1>>, <<0, 1>>>>,
              <<<<1, 2>>, <<0, 1>>, <<0, 1>>>>,
              <<<<0, 1>>, <<1, 1>>, <<0, 1>>>>}

CheckCaptchaFew == CheckCaptchaFrom(FewLabels)

DetectFew == DetectFrom(FewLists)

MatchBoxFew == MatchBoxFrom(FewTables)

NextFew ==
    \/ Enter
    \/ DownloadCaptchaImg
    \/ CheckCaptchaFew
    \/ DetectFew
    \/ MatchBoxFew
    \/ CheckAnswerStep
    \/ ReadStyle
    \/ Click
    \/ Submit
    \/ Verify
    \/ RefreshBody
    \/ ExceptClause
    \/ RefreshHandler
    \/ Unwind
    \/ Return

SpecFair == Init /\ [][NextFew]_vars /\ WF_vars(NextFew)

(***************************************************************************)
(* The resolver alone: the state of the top-level call at line 233, after  *)
(* the detector has answered with any list of boxes, and from there the    *)
(* scoring loop and the check of the assignment.                           *)
(***************************************************************************)
InitResolver ==
    /\ \E b \in BoxLists :
          /\ bboxes = b
          /\ pc = (IF Len(b) = 0 THEN "answer" ELSE "match")
    /\ retry_count = 0
    /\ stack = <<>>
    /\ exc = "none"
    /\ retval = "none"
    /\ acquisitions = 1
    /\ refreshClicks = 0
    /\ spriteRead = TRUE
    /\ ocrLabels = <<"10", "10", "10">>
    /\ boxIdx = 1
    /\ result = EmptyDict
    /\ clickIdx = 1
    /\ detCalled = TRUE
    /\ simCalls = 0
    /\ clicks = 0
    /\ submitted = FALSE
    /\ uiClass = "none"
    /\ unexpectedRaised = FALSE
    /\ refreshFailed = FALSE
    /\ exhausted = FALSE
    /\ scoreLog = <<>>
    /\ clickLog = <<>>
    /\ shape = <<0, 0>>
    /\ style = <<>>
    /\ geom = <<>>
    /\ geomAt = 0
    /\ temp = [files |-> AttemptFiles(1), purged |-> 1]
    /\ staleRead = FALSE
    /\ NoCall
    /\ sm = NoServerRun
    /\ run = NotRunning

NextResolver ==
    \/ MatchBox
    \/ CheckAnswerStep

SpecResolver == InitResolver /\ [][NextResolver]_vars

(***************************************************************************)
(* The scoring loop alone (lines 233-248) with a record of the matcher's   *)
(* answers: scoreLog[i][j] is the similarity of sprite j and box i.  The   *)
(* detector's list is a prefix of BoxOrder or of BoxOrder reversed.        *)
(***************************************************************************)
Reverse(q) == [i \in 1..Len(q) |-> q[Len(q) + 1 - i]]

ScoringLists ==
    {SubSeq(BoxOrder, 1, n) : n \in 1..MaxBoxes} \cup {SubSeq(Reverse(BoxOrder), 1, n) : n \in 1..MaxBoxes}

InitScoring ==
    /\ bboxes \in ScoringLists
    /\ pc = "match"
    /\ retry_count = 0
    /\ stack = <<>>
    /\ exc = "none"
    /\ retval = "none"
    /\ acquisitions = 1
    /\ refreshClicks = 0
    /\ spriteRead = TRUE
    /\ ocrLabels = <<"10", "10", "10">>
    /\ boxIdx = 1
    /\ result = EmptyDict
    /\ clickIdx = 1
    /\ detCalled = TRUE
    /\ simCalls = 0
    /\ clicks = 0
    /\ submitted = FALSE
    /\ uiClass = "none"
    /\ unexpectedRaised = FALSE
    /\ refreshFailed = FALSE
    /\ exhausted = FALSE
    /\ scoreLog = <<>>
    /\ clickLog = <<>>
    /\ shape = <<0, 0>>
    /\ style = <<>>
    /\ geom = <<>>
    /\ geomAt = 0
    /\ temp = [files |-> AttemptFiles(1), purged |-> 1]
    /\ staleRead = FALSE
    /\ NoCall
    /\ sm = NoServerRun
    /\ run = NotRunning

NextScoring == MatchBoxLogged

SpecScoring == InitScoring /\ [][NextScoring]_vars

(***************************************************************************)
(* check_answer alone, called at line 249 on any dictionary over the six   *)
(* keys: similarities are floats, positions are strings.                   *)
(***************************************************************************)
AllKeys == {SimKey(j) : j \in 1..NumSprites} \cup {PosKey(j) : j \in 1..NumSprites}

SimValues == {FloatVal(f) : f \in Scores}

PosValues == {StrVal(FormatPosition(b)) : b \in BoxPool}

IsSimKey(k) == \E j \in 1..NumSprites : k = SimKey(j)

Dicts ==
    UNION {{d \in [S -> SimValues \cup PosValues] :
               \A k \in S : IF IsSimKey(k) THEN d[k] \in SimValues ELSE d[k] \in PosValues}
           : S \in SUBSET AllKeys}

InitCheckAnswer ==
    /\ result \in Dicts
    /\ pc = "answer"
    /\ retry_count = 0
    /\ stack = <<>>
    /\ exc = "none"
    /\ retval = "none"
    /\ acquisitions = 1
    /\ refreshClicks = 0
    /\ spriteRead = TRUE
    /\ ocrLabels = <<"10", "10", "10">>
    /\ bboxes = <<>>
    /\ boxIdx = 1
    /\ clickIdx = 1
    /\ detCalled = TRUE
    /\ simCalls = 0
    /\ clicks = 0
    /\ submitted = FALSE
    /\ uiClass = "none"
    /\ unexpectedRaised = FALSE
    /\ refreshFailed = FALSE
    /\ exhausted = FALSE
    /\ scoreLog = <<>>
    /\ clickLog = <<>>
    /\ shape = <<0, 0>>
    /\ style = <<>>
    /\ geom = <<>>
    /\ geomAt = 0
    /\ temp = [files |-> AttemptFiles(1), purged |-> 1]
    /\ staleRead = FALSE
    /\ NoCall
    /\ sm = NoServerRun
    /\ run = NotRunning

NextCheckAnswer == CheckAnswerStep

SpecCheckAnswer == InitCheckAnswer /\ [][NextCheckAnswer]_vars

(***************************************************************************)
(* The functions taken alone.  call holds the function and its arguments,  *)
(* ret what the call gives; process_captcha is not running.                *)
(***************************************************************************)
ControllerIdle ==
    /\ pc = "idle"
    /\ retry_count = 0
    /\ stack = <<>>
    /\ exc = "none"
    /\ retval = "none"
    /\ acquisitions = 0
    /\ refreshClicks = 0
    /\ FreshAttempt
    /\ unexpectedRaised = FALSE
    /\ refreshFailed = FALSE
    /\ exhausted = FALSE
    /\ temp = [files |-> NoFiles, purged |-> 0]
    /\ staleRead = FALSE

Pending == ret = [kind |-> "none"]

(***************************************************************************)
(* The coordinate mapping of one axis (lines 257-261): a position of the   *)
(* raw image, the raw size, and a display size that is a multiple of half  *)
(* a pixel.                                                                *)
(***************************************************************************)
DisplaySizes == {Fraction(n, 2) : n \in 0..(2 * MaxDisplay)}

MapCalls ==
    {[fn |-> "map", position |-> x, raw |-> w, size |-> d] :
        x \in 0..MaxRaw, w \in 1..MaxRaw, d \in DisplaySizes}

InitMapping ==
    /\ call \in {c \in MapCalls : c.position <= c.raw}
    /\ Pending
    /\ ControllerIdle
    /\ sm = NoServerRun
    /\ run = NotRunning

EvalMapOffset ==
    /\ call.fn = "map"
    /\ Pending
    /\ ret' = Ok(MapOffset(call.position, call.raw, call.size))
    /\ UNCHANGED <<ctl, counters, attempt, hist, scratch, call, sm, run>>

NextMapping == EvalMapOffset

SpecMapping == InitMapping /\ [][NextMapping]_vars

(***************************************************************************)
(* compute_similarity alone (lines 350-370), on every pair of files and    *)
(* every answer of the matcher: knnMatch gives, for each descriptor of the *)
(* first image, its two nearest descriptors of the second, nearest first,  *)
(* or the only one when the second image has one descriptor.               *)
(***************************************************************************)
ImageFiles ==
    {[readable |-> FALSE, descriptors |-> 0]}
       \cup {[readable |-> TRUE, descriptors |-> n] : n \in 0..MaxDescriptors}

\* distances of the two nearest: 1 < 0.8 * 5, 4 = 0.8 * 5, 5 > 0.8 * 5
NeighbourPairs == {<<1, 5>>, <<4, 5>>, <<5, 5>>}

KnnAnswers(img1, img2) ==
    IF ~img1.readable \/ ~img2.readable \/ img1.descriptors = 0 \/ img2.descriptors = 0
    THEN {<<>>}
    ELSE IF img2.descriptors = 1 THEN {[i \in 1..img1.descriptors |-> <<1>>]}
    ELSE [1..img1.descriptors -> NeighbourPairs]

InitSimilarity ==
    /\ \E img1 \in ImageFiles, img2 \in ImageFiles :
          \E m \in KnnAnswers(img1, img2) :
             call = [fn |-> "compute_similarity", img1 |-> img1, img2 |-> img2, matches |-> m]
    /\ Pending
    /\ ControllerIdle
    /\ sm = NoServerRun
    /\ run = NotRunning

EvalSimilarity ==
    /\ call.fn = "compute_similarity"
    /\ Pending
    /\ ret' = SimilarityOfFiles(call.img1, call.img2, call.matches)
    /\ UNCHANGED <<ctl, counters, attempt, hist, scratch, call, sm, run>>

NextSimilarity == EvalSimilarity

SpecSimilarity == InitSimilarity /\ [][NextSimilarity]_vars

(***************************************************************************)
(* The style parsers alone (lines 187-214) on every style of StylePool,    *)
(* and the click loop alone (lines 250-262) from the state in which        *)
(* check_answer has accepted an assignment, with every style of            *)
(* PointerStyles at every reading and the except clause of line 284.       *)
(***************************************************************************)
ParserNames == {"get_url_from_style", "get_width_from_style", "get_height_from_style"}

ParseCalls == {[fn |-> f, style |-> st] : f \in ParserNames, st \in StylePool}

\* the assignments that check_answer accepts
PointerResults == {d \in Dicts : check_answer(d)}

InitParse ==
    /\ call \in ParseCalls
    /\ Pending
    /\ ControllerIdle
    /\ sm = NoServerRun
    /\ run = NotRunning

InitPointer ==
    /\ pc = "click"
    /\ result \in PointerResults
    /\ shape \in Shapes
    /\ bboxes = SubSeq(BoxOrder, 1, 3)
    /\ boxIdx = 4
    /\ retry_count = 0
    /\ stack = <<>>
    /\ exc = "none"
    /\ retval = "none"
    /\ acquisitions = 1
    /\ refreshClicks = 0
    /\ spriteRead = TRUE
    /\ ocrLabels = <<"10", "10", "10">>
    /\ clickIdx = 1
    /\ detCalled = TRUE
    /\ simCalls = 9
    /\ clicks = 0
    /\ submitted = FALSE
    /\ uiClass = "none"
    /\ unexpectedRaised = FALSE
    /\ refreshFailed = FALSE
    /\ exhausted = FALSE
    /\ scoreLog = <<>>
    /\ clickLog = <<>>
    /\ style = <<>>
    /\ geom = <<>>
    /\ geomAt = 0
    /\ temp = [files |-> AttemptFiles(1), purged |-> 1]
    /\ staleRead = FALSE
    /\ NoCall
    /\ sm = NoServerRun
    /\ run = NotRunning

InitGeometry == InitParse \/ InitPointer

EvalParse ==
    /\ call.fn \in ParserNames
    /\ Pending
    /\ ret' = CASE call.fn = "get_url_from_style" -> get_url_from_style(call.style)
                [] call.fn = "get_width_from_style" -> get_width_from_style(call.style)
                [] call.fn = "get_height_from_style" -> get_height_from_style(call.style)
    /\ UNCHANGED <<ctl, counters, attempt, hist, scratch, call, sm, run>>

NextGeometry ==
    \/ EvalParse
    \/ ReadStyleAny
    \/ Click
    \/ ExceptClause

SpecGeometry == InitGeometry /\ [][NextGeometry]_vars

(***************************************************************************)
(* ServerManager.check_and_renew (src/server_manager.py, lines 103-168).   *)
(* The API client is a collaborator: get_user_points, get_server_ids,      *)
(* get_server_detail and renew_server return, raise RainyunAPIError, or    *)
(* raise something else.  The state of the run is the record sm:           *)
(*   auto_renew, renew_threshold   the configuration of lines 55-61        *)
(*   account     ExpDate of each server id as the API reports it           *)
(*   now         datetime.now(), in seconds; it advances during the run    *)
(*   points      result["points"], the tracked balance                     *)
(*   servers     the list of get_all_servers                               *)
(*   idx, cur    the position of the loop of line 131 and server_status    *)
(*   status, renewed, warnings    the lists of result                      *)
(*   balanceRead, calls           history: get_user_points has returned,   *)
(*                                and the invocations of renew_server      *)
(*   initial     history: the balance that get_user_points returned        *)
(*   idsRead, failed   history: get_server_ids has returned, and the ids   *)
(*                     whose get_server_detail raised RainyunAPIError      *)
(***************************************************************************)
\* line 15
RENEW_COST_7_DAYS == 2258

\* timedelta.days counts whole days of 86400 seconds, rounded down
DaySeconds == 86400

HalfDay == DaySeconds \div 2

\* lines 32-35: whole days from now to the expiry, and 0 once it has passed
days_remaining(expired_at, now) ==
    LET days == (expired_at - now) \div DaySeconds
    IN  IF days > 0 THEN days ELSE 0

NeedsRenewal_Always(days, threshold) == TRUE

\* line 140
NeedsRenewal(days, threshold) == days <= threshold

Affordable_NonNegative(points) == points >= 0

\* line 145
Affordable(points) == points >= RENEW_COST_7_DAYS

Thresholds == {0, 1}

Balances == {0, RENEW_COST_7_DAYS - 1, RENEW_COST_7_DAYS, 2 * RENEW_COST_7_DAYS}

\* ExpDate of a detail: negative, missing (0), in half a day, in a day and
\* a half
ExpDates == {-HalfDay, 0, HalfDay, 3 * HalfDay}

Accounts == UNION {[1..n -> ExpDates] : n \in 0..MaxServers}

RenewStart(auto, threshold, account) ==
    [pc |-> "points", auto_renew |-> auto, renew_threshold |-> threshold,
     account |-> account, now |-> 0, ticks |-> 0,
     balanceRead |-> FALSE, initial |-> 0, points |-> 0, servers |-> <<>>, idx |-> 1,
     cur |-> [days_remaining |-> 0, renewed |-> FALSE],
     status |-> <<>>, renewed |-> <<>>, warnings |-> 0, calls |-> <<>>,
     idsRead |-> FALSE, failed |-> {}]

InitRenew ==
    /\ sm \in {RenewStart(a, t, acc) : a \in BOOLEAN, t \in Thresholds, acc \in Accounts}
    /\ run = NotRunning
    /\ NoCall
    /\ ControllerIdle

RenewRunning == sm.pc \in {"points", "servers", "status", "compare", "renew"}

\* the clock advances while check_and_renew runs
Tick ==
    /\ RenewRunning
    /\ sm.ticks < MaxTicks
    /\ sm' = [sm EXCEPT !.now = @ + HalfDay, !.ticks = @ + 1]
    /\ UNCHANGED <<ctl, counters, attempt, hist, scratch, pure, run>>

\* lines 125 and 164-166: the balance is read, or the read raises
\* RainyunAPIError and the run ends with a warning, or it raises something
\* else, which leaves check_and_renew
GetUserPoints ==
    /\ sm.pc = "points"
    /\ \/ \E p \in Balances :
             sm' = [sm EXCEPT !.points = p, !.initial = p, !.balanceRead = TRUE,
                              !.pc = "servers"]
       \/ sm' = [sm EXCEPT !.warnings = @ + 1, !.pc = "done"]
       \/ sm' = [sm EXCEPT !.pc = "raised"]
    /\ UNCHANGED <<ctl, counters, attempt, hist, scratch, pure, run>>

\* lines 63-101: the servers whose detail was read and has an ExpDate, in
\* the order of the ids; no server when the list of ids cannot be read
ServersOf_KeepInvalid(account, failed) ==
    LET all == [i \in 1..Len(account) |-> [id |-> i, expired_at |-> account[i]]]
        Listed(sv) == sv.id \notin failed
    IN  SelectSeq(all, Listed)

ServersOf(account, failed) ==
    LET all == [i \in 1..Len(account) |-> [id |-> i, expired_at |-> account[i]]]
        Listed(sv) == sv.id \notin failed /\ sv.expired_at > 0
    IN  SelectSeq(all, Listed)

GetAllServers ==
    /\ sm.pc = "servers"
    /\ \/ \E failed \in SUBSET (1..Len(sm.account)) :
             sm' = [sm EXCEPT !.servers = ServersOf(sm.account, failed),
                              !.idsRead = TRUE, !.failed = failed, !.pc = "status"]
       \/ sm' = [sm EXCEPT !.servers = <<>>, !.pc = "status"]
    /\ UNCHANGED <<ctl, counters, attempt, hist, scratch, pure, run>>

\* lines 131-137: the next server and its server_status, or the end of the loop
ServerStatus ==
    /\ sm.pc = "status"
    /\ IF sm.idx > Len(sm.servers)
       THEN sm' = [sm EXCEPT !.pc = "done"]
       ELSE sm' = [sm EXCEPT
                     !.cur = [days_remaining |->
                                 days_remaining(sm.servers[sm.idx].expired_at, sm.now),
                              renewed |-> FALSE],
                     !.pc = "compare"]
    /\ UNCHANGED <<ctl, counters, attempt, hist, scratch, pure, run>>

\* line 162 and the next pass of the loop
NextServer(r) == [r EXCEPT !.status = Append(@, r.cur), !.idx = @ + 1, !.pc = "status"]

\* lines 140-160: the three conditions in front of renew_server
Compare ==
    /\ sm.pc = "compare"
    /\ LET server == sm.servers[sm.idx]
       IN  IF NeedsRenewal(days_remaining(server.expired_at, sm.now), sm.renew_threshold)
           THEN IF sm.auto_renew /\ Affordable(sm.points)
                THEN sm' = [sm EXCEPT !.pc = "renew"]
                ELSE sm' = NextServer([sm EXCEPT !.warnings = @ + 1])
           ELSE sm' = NextServer(sm)
    /\ UNCHANGED <<ctl, counters, attempt, hist, scratch, pure, run>>

\* lines 146-154: renew_server is invoked; it returns and the cost is taken
\* from the tracked balance, or raises RainyunAPIError and a warning is
\* added, or raises something else, which leaves check_and_renew
RenewServer ==
    /\ sm.pc = "renew"
    /\ LET server == sm.servers[sm.idx]
           invoked == [sm EXCEPT !.calls =
                         Append(@, [id |-> server.id, points |-> sm.points,
                                    days_remaining |->
                                       days_remaining(server.expired_at, sm.now)])]
       IN  \/ sm' = NextServer([invoked EXCEPT
                                  !.points = @ - RENEW_COST_7_DAYS,
                                  !.cur.renewed = TRUE,
                                  !.renewed = Append(@, server.id)])
           \/ sm' = NextServer([invoked EXCEPT !.warnings = @ + 1])
           \/ sm' = [invoked EXCEPT !.pc = "raised"]
    /\ UNCHANGED <<ctl, counters, attempt, hist, scratch, pure, run>>

NextRenew ==
    \/ Tick
    \/ GetUserPoints
    \/ GetAllServers
    \/ ServerStatus
    \/ Compare
    \/ RenewServer

SpecRenew == InitRenew /\ [][NextRenew]_vars

(***************************************************************************)
(* run() (src/rainyun.py, lines 373-511): the try body of lines 377-469,   *)
(* the except clause of lines 470-471 and the finally block of lines       *)
(* 473-511.  process_captcha and check_and_renew are taken by their        *)
(* outcomes.  The state is the record run:                                 *)
(*   credentials   RAINYUN_USER and RAINYUN_PWD are both set               *)
(*   api_key       RAINYUN_API_KEY is set                                  *)
(*   loaded        the import of ServerManager at line 45 succeeded        *)
(*   driver        the global driver has been assigned (line 408)          *)
(*   exit          how the try body was left                               *)
(*   pending       an exception that "except Exception" does not catch     *)
(*                 is on its way out of run()                              *)
(*   report        server_report                                           *)
(*   events        history: the steps of the finally block, in order       *)
(***************************************************************************)
ExitPaths == {"missing_credentials", "login_failed", "already_checked_in",
              "captcha_exhausted", "success", "Exception", "BaseException"}

\* the exceptions a step of the body can end with: one that line 470
\* catches, and one that it does not (KeyboardInterrupt, SystemExit)
BodyRaises == {"Exception", "BaseException"}

AfterBody_ReturnSkips(kind) ==
    IF kind = "missing_credentials" THEN "returned" ELSE "quit"

\* lines 470-476: a return, an exception that is caught and one that is not
\* all enter the finally block
AfterBody(kind) == "quit"

\* the try body is left
Leave(kind) ==
    [run EXCEPT !.exit = kind, !.pending = (kind = "BaseException"),
                !.pc = AfterBody(kind)]

RunStart(credentials, api_key, loaded) ==
    [pc |-> "config", credentials |-> credentials, api_key |-> api_key,
     loaded |-> loaded, driver |-> FALSE, exit |-> "none", pending |-> FALSE,
     report |-> "", events |-> <<>>]

InitRun ==
    /\ run \in {RunStart(c, k, l) : c \in BOOLEAN, k \in BOOLEAN, l \in BOOLEAN}
    /\ sm = NoServerRun
    /\ NoCall
    /\ ControllerIdle

\* lines 378-391: the configuration; int() of TIMEOUT or MAX_DELAY can raise
ReadConfig ==
    /\ run.pc = "config"
    /\ \/ run' = IF run.credentials THEN [run EXCEPT !.pc = "init"]
                  ELSE Leave("missing_credentials")
       \/ \E e \in BodyRaises : run' = Leave(e)
    /\ UNCHANGED <<ctl, counters, attempt, hist, scratch, pure, sm>>

\* lines 397-414: the delay, the two recognisers and the browser; a failure
\* comes before the driver is assigned (init_selenium) or after it (the
\* script file, execute_cdp_cmd)
InitBrowser ==
    /\ run.pc = "init"
    /\ \/ run' = [run EXCEPT !.driver = TRUE, !.pc = "login"]
       \/ \E e \in BodyRaises, assigned \in BOOLEAN :
             run' = [Leave(e) EXCEPT !.driver = assigned]
    /\ UNCHANGED <<ctl, counters, attempt, hist, scratch, pure, sm>>

\* lines 417-428: login by cookie or by form
Login ==
    /\ run.pc = "login"
    /\ \/ run' = [run EXCEPT !.pc = "earn"]
       \/ run' = Leave("login_failed")
       \/ \E e \in BodyRaises : run' = Leave(e)
    /\ UNCHANGED <<ctl, counters, attempt, hist, scratch, pure, sm>>

\* lines 430-456: the reward button is clicked, or the page says that the
\* check-in was done, or neither, which raises Exception
Earn ==
    /\ run.pc = "earn"
    /\ \/ run' = [run EXCEPT !.pc = "captcha"]
       \/ run' = Leave("already_checked_in")
       \/ \E e \in BodyRaises : run' = Leave(e)
    /\ UNCHANGED <<ctl, counters, attempt, hist, scratch, pure, sm>>

\* lines 457-462: process_captcha() returns True, returns False, which
\* raises Exception at line 462, or raises
Captcha ==
    /\ run.pc = "captcha"
    /\ \/ run' = [run EXCEPT !.pc = "points"]
       \/ run' = Leave("captcha_exhausted")
       \/ \E e \in BodyRaises : run' = Leave(e)
    /\ UNCHANGED <<ctl, counters, attempt, hist, scratch, pure, sm>>

\* lines 463-469: the balance of the page is read and logged
Points ==
    /\ run.pc = "points"
    /\ \/ run' = Leave("success")
       \/ \E e \in BodyRaises : run' = Leave(e)
    /\ UNCHANGED <<ctl, counters, attempt, hist, scratch, pure, sm>>

\* lines 476-479: driver.quit() inside a bare except; it raises NameError
\* when the driver was never assigned, and whatever it raises is dropped
Quit ==
    /\ run.pc = "quit"
    /\ run' = [run EXCEPT !.events = Append(@, "quit"), !.pc = "server"]
    /\ UNCHANGED <<ctl, counters, attempt, hist, scratch, pure, sm>>

\* line 486
ChecksServers(api_key, loaded) == api_key /\ loaded

\* lines 482-501: the server check, whose exception is caught at line 493
ServerCheck ==
    /\ run.pc = "server"
    /\ IF ChecksServers(run.api_key, run.loaded)
       THEN \E r \in {"report", "check_failed"} :
               run' = [run EXCEPT !.events = Append(@, "check_and_renew"),
                                  !.report = r, !.pc = "notify"]
       ELSE run' = [run EXCEPT !.report = IF run.api_key THEN "load_failed" ELSE "",
                               !.pc = "notify"]
    /\ UNCHANGED <<ctl, counters, attempt, hist, scratch, pure, sm>>

\* lines 504-511: send is called; when it returns, run() returns or the
\* pending exception goes on; when it raises, run() ends with its exception
Notify ==
    /\ run.pc = "notify"
    /\ \E sent \in BOOLEAN :
          run' = [run EXCEPT !.events = Append(@, "send"),
                             !.pc = IF sent /\ ~run.pending THEN "returned"
                                    ELSE "raised"]
    /\ UNCHANGED <<ctl, counters, attempt, hist, scratch, pure, sm>>

NextRun ==
    \/ ReadConfig
    \/ InitBrowser
    \/ Login
    \/ Earn
    \/ Captcha
    \/ Points
    \/ Quit
    \/ ServerCheck
    \/ Notify

SpecRun == InitRun /\ [][NextRun]_vars

(***************************************************************************)
(* Properties.                                                             *)
(***************************************************************************)
RefreshSteps == {"refresh_body", "refresh_handler"}

\* two sprites of the dictionary have the same position
DupPositions(d) ==
    \E i, j \in 1..3 :
        /\ i # j
        /\ PosKey(i) \in DOMAIN d
        /\ PosKey(j) \in DOMAIN d
        /\ d[PosKey(i)] = d[PosKey(j)]

\* the dictionary has a similarity and a position for each of the three sprites
Complete(d) == \A j \in 1..3 : SimKey(j) \in DOMAIN d /\ PosKey(j) \in DOMAIN d

\* the scoring loop of the attempt has run over every box of the detector
LoopDone == detCalled /\ boxIdx = Len(bboxes) + 1

\* the assignment of the attempt comes from fewer than 3 boxes or gives two
\* sprites the same position
Degenerate == Len(bboxes) < 3 \/ DupPositions(result)

\* the classifier answered "0" or "1" for a third of the strip
Flagged(ls) == \E i \in 1..Len(ls) : ls[i] \in {"0", "1"}

\* C1: an exception outside the three retryable classes, raised in any
\* attempt, reaches the caller of process_captcha as that exception: a run
\* in which one was raised never ends with a return value.
C1_UnexpectedPropagates ==
    (pc = "done" /\ unexpectedRaised) => (exc = "OtherException" /\ retval = "none")

\* C2: one top-level call performs at most cap + 1 = 6 calls of
\* download_captcha_img.
C2_AtMostCapPlusOneAcquisitions == acquisitions <= 6

C2_Witness ==
    pc = "done" /\ exhausted /\ retval = "False" /\ acquisitions = 5

C3_AlwaysClicksStep ==
    pc \in RefreshSteps =>
       (refreshClicks' = refreshClicks + 1 /\ retry_count' = retry_count + 1 /\ pc' = "entry")

\* C3 as stated: every retryable condition is followed by exactly one click
\* of the refresh control and a new call with retry_count + 1, that is, every
\* step from the refresh point is such a click.
C3_RefreshAlwaysClicks == [][C3_AlwaysClicksStep]_vars

\* every retryable condition (an exception of the three classes, an
\* unreadable or flagged strip, a rejected assignment, a failed verification)
\* leads to the refresh point with retry_count unchanged
C3_ConditionToRefresh ==
    /\ (pc = "raised" /\ IsRetryable(exc)) => pc' = "refresh_handler"
    /\ (pc = "quality" /\ pc' # "raised" /\ (~spriteRead' \/ Flagged(ocrLabels')))
          => pc' = "refresh_body"
    /\ (pc = "answer" /\ (Cardinality(DOMAIN result) < 6 \/ DupPositions(result)))
          => pc' = "refresh_body"
    /\ (pc = "verify" /\ pc' # "raised" /\ uiClass' # "show-success") => pc' = "refresh_body"
    /\ pc' \in RefreshSteps => UNCHANGED <<retry_count, refreshClicks, acquisitions>>

\* from the refresh point either the control is clicked once and a call with
\* retry_count + 1 starts, or the refresh fails without a click or a new call
C3_RefreshStep ==
    pc \in RefreshSteps =>
       \/ /\ refreshClicks' = refreshClicks + 1
          /\ retry_count' = retry_count + 1
          /\ acquisitions' = acquisitions
          /\ pc' = "entry"
       \/ /\ refreshFailed'
          /\ UNCHANGED <<refreshClicks, retry_count, acquisitions>>
          /\ pc' \in {"raised", "return"}

\* retry_count grows and the control is clicked only at the refresh point,
\* and acquisition number n + 1 starts after exactly n clicks
C3_AcquisitionAfterClick ==
    /\ retry_count' > retry_count => pc \in RefreshSteps
    /\ refreshClicks' # refreshClicks => pc \in RefreshSteps
    /\ acquisitions' # acquisitions =>
          /\ acquisitions' = acquisitions + 1
          /\ refreshClicks = retry_count
          /\ acquisitions = retry_count

\* C3 as amended: every retryable condition leads to the refresh point; when
\* the refresh control is found and clicked, that one click is followed by a
\* new call with retry_count + 1; when it cannot be found or clicked there is
\* no click and no new call; no acquisition starts without a preceding click.
C3_RetryableRefreshes ==
    [][C3_ConditionToRefresh /\ C3_RefreshStep /\ C3_AcquisitionAfterClick]_vars

C3_Witness ==
    /\ pc = "download"
    /\ stack = <<"handler", "body">>
    /\ retry_count = 2
    /\ refreshClicks = 2
    /\ acquisitions = 2

\* once the cap was reached the call only returns: nothing is acquired,
\* detected, scored, clicked, submitted or refreshed
C4_NoActionStep ==
    exhausted =>
       /\ exhausted'
       /\ pc' \in {"return", "done"}
       /\ UNCHANGED <<acquisitions, refreshClicks, detCalled, simCalls, clicks, submitted>>

\* C4: a call with retry_count = 5 makes no attempt and returns False; after
\* that no acquisition, detection, pointer click, submission or refresh click
\* happens, and the run ends with the value False.
C4_ExhaustedIsFinal ==
    /\ [](retry_count >= 5 => (pc \in {"entry", "return"} /\ (pc = "return" => exhausted)))
    /\ []((pc = "done" /\ exhausted) => (retval = "False" /\ exc = "none"))
    /\ [][C4_NoActionStep]_vars

C4_Witness ==
    exhausted /\ pc = "return" /\ retry_count = 0 /\ retval = "False"

\* C5: a run in which only retryable conditions occurred (a refresh control
\* that cannot be found or clicked included) ends with a boolean return
\* value and raises nothing.
C5_NeverRaisesOnRetryable ==
    (pc = "done" /\ ~unexpectedRaised) => (exc = "none" /\ retval \in {"True", "False"})

\* C6: check_answer rejects every dictionary of fewer than 6 keys and every
\* dictionary in which two sprites have the same position, whatever the
\* similarities are.
C6_CheckAnswerRejects ==
    /\ (Cardinality(DOMAIN result) < 6 \/ DupPositions(result)) => ~check_answer(result)
    /\ pc = "click" => (Cardinality(DOMAIN result) >= 6 /\ ~DupPositions(result))

C6_Witness ==
    /\ pc = "refresh_body"
    /\ Cardinality(DOMAIN result) = 5
    /\ Cardinality(Flipped(result)) = 5

\* C7: a dictionary with all 6 keys and three different positions is
\* accepted by check_answer, whatever the similarities are.
C7_DistinctPositionsAccepted ==
    (pc = "answer" /\ Complete(result) /\ ~DupPositions(result)) => check_answer(result)

C8_AlwaysClicksStep ==
    (pc = "refresh_body" /\ LoopDone /\ Degenerate) =>
       (refreshClicks' = refreshClicks + 1 /\ retry_count' = retry_count + 1)

\* C8 as stated: after fewer than 3 boxes or a duplicate position the refresh
\* control is clicked and retry_count grows by 1.
C8_RejectedAlwaysClicksRefresh == [][C8_AlwaysClicksStep]_vars

\* a degenerate assignment is rejected, and from the refresh point the
\* control is clicked with retry_count + 1, or the refresh fails without a click
C8_RejectedStep ==
    /\ (pc = "answer" /\ Degenerate) => pc' = "refresh_body"
    /\ (pc = "refresh_body" /\ LoopDone /\ Degenerate) =>
          \/ refreshClicks' = refreshClicks + 1 /\ retry_count' = retry_count + 1
          \/ refreshClicks' = refreshClicks /\ retry_count' = retry_count /\ pc' = "raised"

\* C8 as amended: after fewer than 3 boxes or a duplicate position the
\* attempt makes no pointer click and no submission; the assignment is
\* rejected and control goes to the refresh point, where either the control
\* is clicked once and retry_count grows by exactly 1, or the control cannot
\* be found or clicked and the attempt ends without a click.
C8_RejectedNeverActs ==
    /\ []((LoopDone /\ Degenerate) =>
             (clicks = 0 /\ ~submitted /\ pc \notin {"click", "submit", "verify"}))
    /\ [][C8_RejectedStep]_vars

C8_Witness ==
    /\ pc = "refresh_body"
    /\ LoopDone
    /\ Len(bboxes) = 3
    /\ DupPositions(result)
    /\ Cardinality({result[SimKey(j)] : j \in 1..3}) = 3

\* C9 as stated: with exactly 2 boxes the dictionary handed to check_answer
\* has fewer than 6 keys.
C9_TwoBoxesIncomplete ==
    (pc = "answer" /\ Len(bboxes) = 2) => Cardinality(DOMAIN result) < 6

\* C9 as amended: with exactly 2 boxes the dictionary handed to check_answer
\* has all 6 keys; two of its three positions are equal, and check_answer
\* rejects it as a duplicate, so the attempt does not reach the clicks.
C9_TwoBoxesDuplicate ==
    /\ (pc = "answer" /\ Len(bboxes) = 2) =>
          /\ Cardinality(DOMAIN result) = 6
          /\ Complete(result)
          /\ DupPositions(result)
          /\ ~check_answer(result)
    /\ (LoopDone /\ Len(bboxes) = 2) => pc # "click"

C9_Witness ==
    /\ pc = "refresh_body"
    /\ Len(bboxes) = 2
    /\ Cardinality(DOMAIN result) = 6
    /\ Cardinality({result[PosKey(j)] : j \in 1..3}) = 2

\* a flagged strip sends the attempt from the quality check to the refresh
\* point, and the click made there takes one unit of retry_count
C10_FlaggedStep ==
    /\ (pc = "quality" /\ Flagged(ocrLabels')) => pc' = "refresh_body"
    /\ (pc = "refresh_body" /\ Flagged(ocrLabels) /\ pc' = "entry") =>
          (retry_count' = retry_count + 1 /\ refreshClicks' = refreshClicks + 1)

\* C10: when the classifier answers "0" or "1" for a third of the strip, the
\* attempt calls no detector, computes no similarity, clicks nothing and
\* submits nothing: control goes from the quality check to the refresh
\* point, and the refresh click that follows takes one unit of retry_count.
C10_LowQualitySkipsDetection ==
    /\ [](Flagged(ocrLabels) =>
             /\ ~detCalled
             /\ simCalls = 0
             /\ clicks = 0
             /\ ~submitted
             /\ pc \in {"refresh_body", "raised", "unwind", "done"})
    /\ [][C10_FlaggedStep]_vars

C10_Witness ==
    /\ pc = "refresh_body"
    /\ ocrLabels = <<"10", "1">>
    /\ retry_count = 2
    /\ ~detCalled

\* the greatest similarity of sprite j over the first n boxes of the log
BestScore(j, n) ==
    CHOOSE f \in {scoreLog[i][j] : i \in 1..n} :
        \A i \in 1..n : ~FloatLess(f, scoreLog[i][j])

\* the first box, in detector order, with that similarity
FirstBest(j, n) ==
    CHOOSE i \in 1..n :
        /\ scoreLog[i][j] = BestScore(j, n)
        /\ \A k \in 1..(i - 1) : scoreLog[k][j] # BestScore(j, n)

\* the centre of a box in whole pixels
Centre(box) ==
    CHOOSE c \in (0..box[3]) \X (0..box[4]) :
        /\ 2 * c[1] <= box[1] + box[3] /\ box[1] + box[3] < 2 * c[1] + 2
        /\ 2 * c[2] <= box[2] + box[4] /\ box[2] + box[4] < 2 * c[2] + 2

\* C11: after n boxes are scored, for each sprite j the retained similarity
\* is the greatest similarity of sprite j over these boxes, and the retained
\* position is the centre, in whole pixels, of the first box in detector
\* order with that similarity; after the loop n is the number of boxes.
C11_RetainedIsFirstMax ==
    /\ Len(scoreLog) = boxIdx - 1
    /\ pc = "answer" => Len(scoreLog) = Len(bboxes)
    /\ Len(scoreLog) >= 1 =>
          \A j \in 1..3 :
              /\ SimKey(j) \in DOMAIN result /\ PosKey(j) \in DOMAIN result
              /\ result[SimKey(j)] = FloatVal(BestScore(j, Len(scoreLog)))
              /\ result[PosKey(j)].t = "str"
              /\ ParsePosition(result[PosKey(j)].v) = Centre(bboxes[FirstBest(j, Len(scoreLog))])

\* sprite 1 scored 1/2, then 1, then 1 again: replaced once, the tie keeps box 2
C11_Witness ==
    /\ pc = "answer"
    /\ Len(bboxes) = 3
    /\ scoreLog[1][1] = <<1, 2>> /\ scoreLog[2][1] = <<1, 1>> /\ scoreLog[3][1] = <<1, 1>>
    /\ ParsePosition(result[PosKey(1)].v) = Centre(bboxes[2])
    /\ Centre(bboxes[2]) # Centre(bboxes[3])

\* the clicks performed so far in the attempt are those of sprites 1, 2, ...
ClicksInOrder ==
    /\ Len(clickLog) <= 3
    /\ Len(clickLog) = clicks
    /\ \A k \in 1..Len(clickLog) : clickLog[k].sprite = k

\* a click is the next one of the order, and the submission is made from the
\* end of the loop with the three clicks of the attempt behind it
C12_OrderStep ==
    /\ clickLog' # clickLog =>
          \/ clickLog' = <<>>
          \/ /\ Len(clickLog') = Len(clickLog) + 1
             /\ SubSeq(clickLog', 1, Len(clickLog)) = clickLog
             /\ clickLog'[Len(clickLog')].sprite = Len(clickLog) + 1
             /\ ~submitted
    /\ (submitted' /\ ~submitted) =>
          /\ pc = "submit"
          /\ clickLog' = clickLog
          /\ [k \in 1..Len(clickLog) |-> clickLog[k].sprite] = <<1, 2, 3>>

\* C12: the pointer clicks of an attempt are made in the order sprite 1,
\* sprite 2, sprite 3; the puzzle is submitted only after these three clicks
\* of the same attempt; an attempt that stopped after one or two clicks has
\* not submitted and does not submit.
C12_ClicksInOrderThenSubmit ==
    /\ []ClicksInOrder
    /\ [](submitted => Len(clickLog) = 3)
    /\ []((Len(clickLog) \in {1, 2} /\ pc \notin {"click", "point"}) =>
             (~submitted /\ pc \in {"raised", "unwind", "refresh_handler", "return", "done"}))
    /\ [][C12_OrderStep]_vars

C12_Witness ==
    /\ pc = "verify"
    /\ submitted
    /\ [k \in 1..Len(clickLog) |-> clickLog[k].sprite] = <<1, 2, 3>>
    /\ retry_count = 1

\* the value True is produced by the verification of a submitted attempt
\* that shows the success indicator, and by nothing else; it is then only
\* handed to the caller; a verification that shows anything else goes to the
\* refresh step of line 279 without a value
C13_TrueStep ==
    /\ (retval' = "True" /\ retval # "True") =>
          /\ pc = "verify"
          /\ submitted
          /\ Len(clickLog) = 3
          /\ uiClass' = "show-success"
          /\ pc' = "return"
    /\ retval = "True" =>
          /\ retval' = "True"
          /\ pc' \in {"return", "done"}
          /\ UNCHANGED <<acquisitions, refreshClicks, exc>>
    /\ (pc = "verify" /\ pc' # "raised" /\ uiClass' # "show-success") =>
          /\ pc' = "refresh_body"
          /\ retval' = "none"
          /\ UNCHANGED <<retry_count, stack>>

\* C13: process_captcha returns True only if the last attempt submitted the
\* puzzle and the state of the page after the submission showed the success
\* indicator; after any other state the attempt goes to the refresh step and
\* gives no True.
C13_TrueOnlyAfterSuccess ==
    /\ [](retval = "True" => (exc = "none" /\ ~exhausted /\ pc \in {"return", "done"}))
    /\ []((submitted /\ uiClass \notin {"none", "show-success"}) =>
             (retval = "none" /\ pc \in {"refresh_body", "raised", "unwind", "done"}))
    /\ [][C13_TrueStep]_vars

C13_Witness ==
    /\ pc = "return"
    /\ retval = "True"
    /\ submitted
    /\ uiClass = "show-success"
    /\ stack = <<"body", "handler">>

\* the positions of an attempt after download_captcha_img has returned
AfterDownload ==
    {"quality", "detect", "match", "answer", "click", "point", "submit", "verify", "refresh_body"}

\* every file of the directory was written by the current attempt
OnlyCurrentFiles ==
    \A f \in DOMAIN temp.files : temp.files[f] = acquisitions

\* an attempt starts with the removal loop: it ends and leaves only what the
\* attempt then downloads, or it raises and the attempt does nothing more;
\* files are written by the download, the quality check and the scoring loop
C14_PurgeStep ==
    /\ acquisitions' # acquisitions =>
          \/ /\ temp'.purged = acquisitions'
             /\ \A f \in DOMAIN temp'.files : temp'.files[f] = acquisitions'
             /\ DOMAIN temp'.files \subseteq {CaptchaFile, SpriteStrip}
          \/ /\ temp' = temp
             /\ pc' = "raised"
             /\ exc' = "OtherException"
    /\ temp' # temp => pc \in {"download", "quality", "match"}
    /\ temp'.purged # temp.purged => acquisitions' = acquisitions + 1

\* C14: every attempt starts by removing all files of the scratch directory,
\* before it writes or reads any file: once the removal of attempt N has
\* ended the directory holds only files written by attempt N, and no step
\* (quality check, decoding, detector, matcher) reads a file written by an
\* earlier attempt or an earlier run.
C14_ScratchHoldsOnlyCurrentAttempt ==
    /\ [](~staleRead)
    /\ [](temp.purged = acquisitions => OnlyCurrentFiles)
    /\ [](pc \in AfterDownload => (temp.purged = acquisitions /\ acquisitions >= 1))
    /\ [][C14_PurgeStep]_vars

\* the third attempt, after two attempts that wrote files, has scored two boxes
C14_Witness ==
    /\ pc = "answer"
    /\ acquisitions = 3
    /\ stack = <<"body", "handler">>
    /\ Len(bboxes) = 2
    /\ DOMAIN temp.files = DOMAIN AttemptFiles(3) \cup {SpecFile(1), SpecFile(2)}
    /\ OnlyCurrentFiles

\* numerator and denominator of -D/2 + position/W * D = D (2 position - W) / (2 W)
ExactOffsetNum(c) == c.size[1] * (2 * c.position - c.raw)

ExactOffsetDen(c) == 2 * c.size[2] * c.raw

\* C15: for every raw size W and display size D, the position W/2 of an
\* axis is mapped to the offset 0, whatever the ratio D/W; the offset of any
\* position is -D/2 + position/W * D, cut to a whole number of pixels
\* towards zero.
C15_CentreMapsToZero ==
    (call.fn = "map" /\ ret.kind = "ok") =>
       /\ 2 * call.position = call.raw => ret.val = 0
       /\ IF ExactOffsetNum(call) >= 0
          THEN /\ ret.val * ExactOffsetDen(call) <= ExactOffsetNum(call)
               /\ ExactOffsetNum(call) < (ret.val + 1) * ExactOffsetDen(call)
          ELSE /\ (ret.val - 1) * ExactOffsetDen(call) < ExactOffsetNum(call)
               /\ ExactOffsetNum(call) <= ret.val * ExactOffsetDen(call)

\* the centre of a raw width 4 shown 5.5 pixels wide
C15_Witness ==
    /\ call = [fn |-> "map", position |-> 2, raw |-> 4, size |-> <<11, 2>>]
    /\ ret = Ok(0)

\* a call of compute_similarity has been evaluated
SimilarityDone == call.fn = "compute_similarity" /\ ~Pending

\* C16 as stated: compute_similarity never fails.
C16_NeverFails == SimilarityDone => ret.kind = "ok"

\* the value for two images that were read: (0.0, 0) when an image has no
\* descriptors or no match passes the filter, else accepted / attempted
\* matches and the number of accepted matches
C16_ValueOfImages ==
    LET n1 == call.img1.descriptors
        n2 == call.img2.descriptors
        accepted == Good(call.matches)
    IN  /\ ret.kind = "ok"
        /\ ret.val[1][2] > 0
        /\ (n1 = 0 \/ n2 = 0 \/ accepted = 0) => ret.val = <<<<0, 1>>, 0>>
        /\ (n1 > 0 /\ n2 > 0 /\ accepted > 0) =>
              /\ Len(call.matches) = n1
              /\ ret.val[1][1] * Len(call.matches) = accepted * ret.val[1][2]
              /\ ret.val[2] = accepted

\* C16 as amended: on two files that are read as images compute_similarity
\* does not fail and does not divide by zero: it returns (0.0, 0) if either
\* image has no descriptors or if no match passes the 0.8 ratio filter, and
\* else similarity = accepted / attempted matches and votes = accepted; on a
\* file that cannot be read it raises cv2.error.
C16_SimilarityOfReadableImages ==
    SimilarityDone =>
       IF call.img1.readable /\ call.img2.readable
       THEN C16_ValueOfImages
       ELSE ret = [kind |-> "cv2.error"]

\* three descriptors against two, two of the three matches pass the filter
C16_Witness ==
    /\ SimilarityDone
    /\ call.img1 = [readable |-> TRUE, descriptors |-> 3]
    /\ call.img2 = [readable |-> TRUE, descriptors |-> 2]
    /\ call.matches = <<<<1, 5>>, <<4, 5>>, <<1, 5>>>>
    /\ ret = Ok(<<<<2, 3>>, 2>>)

\* the style has a match of the expression of the parser somewhere
HasToken(fn, st) ==
    \E i \in 1..Len(st) :
        CASE fn = "get_url_from_style" -> UrlMatchAt(st, i).kind = "ok"
          [] fn = "get_width_from_style" -> SizeGroupAt(st, i, WidthKey) # <<>>
          [] fn = "get_height_from_style" -> SizeGroupAt(st, i, HeightKey) # <<>>

\* the text is a piece of the style
IsPieceOf(text, st) ==
    \E i \in 1..(Len(st) + 1), j \in 0..Len(st) : text = SubSeq(st, i, j)

\* a parser raises ValueError on the empty style and on a style without its
\* token, and gives a piece of the style otherwise
C17_ParserFailsExplicitly ==
    (call.fn \in ParserNames /\ ~Pending) =>
       IF call.style = <<>> \/ ~HasToken(call.fn, call.style)
       THEN ret = Raised("ValueError")
       ELSE /\ ret.kind = "ok"
            /\ IsPieceOf(ret.val, call.style)
            /\ call.fn # "get_url_from_style" => ret.val # <<>>

\* a width and a height as float reads them, from the tokens of the style
SizeParses(st) ==
    /\ st # <<>>
    /\ HasToken("get_width_from_style", st)
    /\ HasToken("get_height_from_style", st)
    /\ ParseFloat(get_width_from_style(st).val).kind = "ok"
    /\ ParseFloat(get_height_from_style(st).val).kind = "ok"

\* a reading whose style does not parse raises ValueError and clicks nothing,
\* ValueError goes to the refresh of the handler, and every click is made
\* with the width and height parsed from the style of its pass
C17_ClickStep ==
    /\ pc = "click" => pc' \in {"point", "raised"}
    /\ (pc = "click" /\ pc' = "point") => SizeParses(style')
    /\ (pc = "click" /\ pc' = "raised" /\ exc' = "ValueError") =>
          (~SizeParses(style') /\ UNCHANGED <<clickLog, clicks, geom, geomAt>>)
    /\ (pc = "raised" /\ exc = "ValueError") =>
          (pc' = "refresh_handler" /\ UNCHANGED <<clickLog, clicks, retry_count>>)
    /\ clickLog' # clickLog =>
          /\ pc = "point"
          /\ SizeParses(style)
          /\ clickLog'[Len(clickLog')].size =
                <<ParseFloat(get_width_from_style(style).val).val,
                  ParseFloat(get_height_from_style(style).val).val>>

\* C17: get_url_from_style, get_width_from_style and get_height_from_style
\* raise ValueError when the style is empty or has no token of theirs, and
\* never give a default; a reading of the style that does not parse makes no
\* pointer click and is handled by the except clause as a retryable failure.
C17_ParseFailureNeverClicks ==
    /\ []C17_ParserFailsExplicitly
    /\ [](pc = "point" => (SizeParses(style) /\ geom # <<>>))
    /\ [][C17_ClickStep]_vars

\* one click was made, then the style had no width: the attempt is in the
\* handler with one click and the size of the first reading
C17_Witness ==
    /\ pc = "refresh_handler"
    /\ Len(clickLog) = 1
    /\ style # <<>>
    /\ ~HasToken("get_width_from_style", style)
    /\ HasToken("get_height_from_style", style)
    /\ geom = clickLog[1].size

\* the style is read at the head of a pass and nowhere else, and the click of
\* a pass is made with the size of the reading of that same pass
C18_RereadStep ==
    /\ geomAt' # geomAt =>
          \/ pc = "click" /\ pc' = "point" /\ geomAt' = clicks + 1
          \/ geomAt' = 0 /\ clickLog' = <<>>
    /\ (clickLog' # clickLog /\ clickLog' # <<>>) =>
          /\ geomAt = Len(clickLog) + 1
          /\ clickLog'[Len(clickLog')].readAt = Len(clickLog')
          /\ clickLog'[Len(clickLog')].size = geom
          /\ SizeParses(style)
          /\ geom = <<ParseFloat(get_width_from_style(style).val).val,
                      ParseFloat(get_height_from_style(style).val).val>>

\* C18: in an attempt the style of the puzzle element is read again before
\* each of the three clicks: click number k uses the width and height read
\* in pass k, after click k - 1, never those of an earlier pass or attempt.
C18_GeometryRereadBeforeEachClick ==
    /\ [](\A k \in 1..Len(clickLog) : clickLog[k].readAt = k)
    /\ [](pc = "point" => geomAt = clicks + 1)
    /\ [][C18_RereadStep]_vars

\* three clicks made with three different sizes
C18_Witness ==
    /\ Len(clickLog) = 3
    /\ clickLog[1].size # clickLog[2].size
    /\ clickLog[2].size # clickLog[3].size
    /\ clickLog[1].size # clickLog[3].size
    /\ [k \in 1..3 |-> clickLog[k].readAt] = <<1, 2, 3>>

\* retry_count changes by the recursive call, which adds 1, and by the
\* return of a call to the enclosing one
C19_RetryStep ==
    /\ retry_count' > retry_count =>
          /\ retry_count' = retry_count + 1
          /\ pc \in RefreshSteps
          /\ pc' = "entry"
          /\ Len(stack') = Len(stack) + 1
    /\ pc' = "entry" => retry_count' = retry_count + 1
    /\ retry_count' < retry_count =>
          (retry_count' = retry_count - 1 /\ Len(stack') = Len(stack) - 1)

\* C19: when every collaborator call returns or raises, every call of
\* process_captcha() ends, whatever the attempts do: retry_count starts at
\* 0, grows by exactly 1 at each recursive call and stays within 0..5.
C19_Terminates ==
    /\ retry_count = 0
    /\ <>(pc = "done")
    /\ [](retry_count \in 0..5 /\ retry_count = Len(stack))
    /\ [][C19_RetryStep]_vars

\* the run has ended after the cap was reached through both call sites
C19_Witness ==
    /\ pc = "done"
    /\ exhausted
    /\ acquisitions = 5
    /\ refreshClicks = 5
    /\ retry_count = 0

\* a step that invokes renew_server is taken for the server of the loop,
\* after the balance was read, with the server at or under the threshold
\* now, with auto-renew on and with the tracked balance covering the cost
C20_RenewStep ==
    Len(sm'.calls) > Len(sm.calls) =>
       /\ sm.pc = "renew"
       /\ sm.idx \in 1..Len(sm.servers)
       /\ sm.balanceRead
       /\ days_remaining(sm.servers[sm.idx].expired_at, sm.now) <= sm.renew_threshold
       /\ sm.auto_renew
       /\ sm.points >= RENEW_COST_7_DAYS
       /\ sm'.calls = Append(sm.calls,
                              [id |-> sm.servers[sm.idx].id, points |-> sm.points,
                               days_remaining |->
                                  days_remaining(sm.servers[sm.idx].expired_at, sm.now)])

\* every invocation so far was made under the four conditions, and every
\* server recorded as renewed was invoked
C20_Invoked ==
    /\ \A k \in 1..Len(sm.calls) :
          /\ sm.balanceRead
          /\ sm.auto_renew
          /\ sm.calls[k].days_remaining <= sm.renew_threshold
          /\ sm.calls[k].points >= RENEW_COST_7_DAYS
    /\ \A k \in 1..Len(sm.renewed) : \E j \in 1..Len(sm.calls) : sm.calls[j].id = sm.renewed[k]
    /\ sm.pc = "renew" => (sm.balanceRead /\ sm.auto_renew /\ sm.points >= RENEW_COST_7_DAYS)

\* C20: in check_and_renew, renew_server is invoked for a server only if
\* the balance was read, the days_remaining of the server is at most the
\* threshold, auto-renew is on and the tracked balance at that moment is at
\* least 2258; a server above the threshold is never renewed.
C20_RenewOnlyWhenDueAndAffordable ==
    /\ []C20_Invoked
    /\ [][C20_RenewStep]_vars

\* two servers and a balance of exactly the cost: the first is above the
\* threshold and is passed over, the second is renewed with the whole balance
C20_Witness ==
    /\ sm.pc = "done"
    /\ Len(sm.servers) = 2
    /\ sm.renew_threshold = 0
    /\ sm.status = <<[days_remaining |-> 1, renewed |-> FALSE],
                     [days_remaining |-> 0, renewed |-> TRUE]>>
    /\ sm.calls = <<[id |-> 2, points |-> RENEW_COST_7_DAYS, days_remaining |-> 0]>>
    /\ sm.renewed = <<2>>
    /\ sm.points = 0

\* the tracked balance is the balance read less the cost of every server
\* in result["renewed"], and is not negative
C21_Balance ==
    /\ ~sm.balanceRead => (sm.points = 0 /\ sm.renewed = <<>>)
    /\ sm.balanceRead =>
          /\ sm.initial >= 0
          /\ sm.points >= 0
          /\ sm.points = sm.initial - RENEW_COST_7_DAYS * Len(sm.renewed)

\* the server_status appended by the step
Closed(r) == r.status[Len(r.status)]

\* after the balance was read: a renewal that succeeds takes the cost once
\* and marks the server; a renewal that fails and a balance that is too
\* small leave the balance as it is, add a warning and mark nothing
C21_BalanceStep ==
    /\ Len(sm'.renewed) > Len(sm.renewed) =>
          /\ sm.pc = "renew"
          /\ sm'.renewed = Append(sm.renewed, sm.servers[sm.idx].id)
          /\ sm'.points = sm.points - RENEW_COST_7_DAYS
          /\ sm'.warnings = sm.warnings
          /\ Closed(sm').renewed
    /\ (sm.balanceRead /\ sm'.renewed = sm.renewed) => sm'.points = sm.points
    /\ (sm.pc = "renew" /\ sm'.pc = "status" /\ sm'.renewed = sm.renewed) =>
          /\ sm'.warnings = sm.warnings + 1
          /\ ~Closed(sm').renewed
    /\ (sm.pc = "compare" /\ sm'.pc # "compare"
           /\ sm.auto_renew /\ sm.points < RENEW_COST_7_DAYS
           /\ days_remaining(sm.servers[sm.idx].expired_at, sm.now) <= sm.renew_threshold) =>
          /\ sm'.pc = "status"
          /\ sm'.calls = sm.calls
          /\ sm'.warnings = sm.warnings + 1
          /\ ~Closed(sm').renewed

\* C21: in check_and_renew the tracked balance result["points"] is never
\* negative when the balance read is not: it falls by exactly 2258 for each
\* renewal that succeeds and is left alone by a renewal that fails and by a
\* balance that is too small, so the final balance is the balance read less
\* 2258 times the number of entries of result["renewed"]; a renewal that
\* fails adds a warning and does not mark the server renewed.
C21_BalanceTracksRenewals ==
    /\ []C21_Balance
    /\ [][C21_BalanceStep]_vars

\* two servers are due and the balance covers both: the first renewal
\* fails, the second succeeds, and the run ends with one cost taken
C21_Witness ==
    /\ sm.pc = "done"
    /\ sm.initial = 2 * RENEW_COST_7_DAYS
    /\ Len(sm.calls) = 2
    /\ sm.renewed = <<2>>
    /\ sm.warnings = 1
    /\ sm.points = RENEW_COST_7_DAYS
    /\ [k \in 1..2 |-> sm.status[k].renewed] = <<FALSE, TRUE>>

\* get_all_servers has returned
ListTaken == sm.pc \in {"status", "compare", "renew"} \/ (sm.pc = "done" /\ sm.balanceRead)

\* the server id is left out of the list: its ExpDate is missing, zero or
\* negative, or its detail request failed
LeftOut(id) == sm.account[id] <= 0 \/ id \in sm.failed

\* the ids of a list of servers or of invocations
IdsOf(list) == {list[k].id : k \in 1..Len(list)}

\* no server that is left out is in the list, is passed to renew_server or
\* is recorded as renewed, and the balance has paid for listed servers only;
\* when the ids were read, every other server is in the list, in the order
\* of the ids, and has its server_status once the loop has ended
C22_LeftOutNeverRenewed ==
    ListTaken =>
       /\ \A id \in 1..Len(sm.account) :
             LeftOut(id) =>
                /\ id \notin IdsOf(sm.servers)
                /\ id \notin IdsOf(sm.calls)
                /\ \A k \in 1..Len(sm.renewed) : sm.renewed[k] # id
       /\ sm.initial - sm.points = RENEW_COST_7_DAYS * Len(sm.renewed)
       /\ \A k \in 1..Len(sm.renewed) : sm.renewed[k] \in IdsOf(sm.servers)
       /\ sm.idsRead =>
             /\ IdsOf(sm.servers) = {id \in 1..Len(sm.account) : ~LeftOut(id)}
             /\ \A k \in 1..Len(sm.servers) :
                   /\ sm.servers[k].expired_at = sm.account[sm.servers[k].id]
                   /\ k > 1 => sm.servers[k - 1].id < sm.servers[k].id
       /\ sm.pc = "done" => Len(sm.status) = Len(sm.servers)

\* a server_status is added for the server of the loop only
C22_ProcessStep ==
    Len(sm'.status) > Len(sm.status) =>
       /\ sm.idx \in 1..Len(sm.servers)
       /\ ~LeftOut(sm.servers[sm.idx].id)
       /\ Len(sm'.status) = sm.idx
       /\ sm'.idx = sm.idx + 1

\* C22: a server whose ExpDate is missing, zero or negative, or whose detail
\* request fails, is not in the server list, so it is never renewed and
\* never costs credits, and the other servers are still processed.
C22_InvalidServersExcluded ==
    /\ []C22_LeftOutNeverRenewed
    /\ [][C22_ProcessStep]_vars

\* the first server has a negative ExpDate, the second is due: the list
\* holds the second alone, and it is renewed
C22_Witness ==
    /\ sm.pc = "done"
    /\ sm.account = <<-HalfDay, HalfDay>>
    /\ sm.failed = {}
    /\ sm.servers = <<[id |-> 2, expired_at |-> HalfDay]>>
    /\ sm.renewed = <<2>>
    /\ Len(sm.status) = 1
    /\ sm.points = sm.initial - RENEW_COST_7_DAYS

\* the steps of the body of run()
BodySteps == {"config", "init", "login", "earn", "captcha", "points"}

\* the cleanup of a configuration, in order
Cleanup(r) ==
    <<"quit">> \o (IF r.api_key /\ r.loaded THEN <<"check_and_renew">> ELSE <<>>)
               \o <<"send">>

\* the cleanup done so far is the beginning of the cleanup sequence, nothing
\* of it is done inside the body, and all of it is done when run() has ended
C23_CleanupSoFar ==
    /\ run.pc \in BodySteps => (run.events = <<>> /\ run.exit = "none")
    /\ run.pc \notin BodySteps => run.exit \in ExitPaths
    /\ \E n \in 0..Len(Cleanup(run)) : run.events = SubSeq(Cleanup(run), 1, n)
    /\ run.pc \in {"returned", "raised"} => run.events = Cleanup(run)
    /\ run.pc = "returned" => run.exit # "BaseException"

\* the body is left for the release of the browser only, and run() ends by
\* the step that sends the notification only
C23_ExitStep ==
    /\ (run.pc \in BodySteps /\ run'.pc \notin BodySteps) => run'.pc = "quit"
    /\ (run.pc \notin {"returned", "raised"} /\ run'.pc \in {"returned", "raised"}) =>
          (run.pc = "notify" /\ run'.events = Append(run.events, "send"))

\* C23: however the body of run() is left (credentials missing, login
\* failed, already checked in, captcha retries exhausted, success, or an
\* exception), the cleanup runs once and in this order: the release of the
\* browser is attempted, then the server check is made if and only if an
\* API key is set and the module was loaded, then send is called once.
C23_CleanupOnceInOrder ==
    /\ []C23_CleanupSoFar
    /\ [][C23_ExitStep]_vars

\* the credentials are missing, the key is set and the module is loaded:
\* run() has returned after the three steps, with a driver never assigned
C23_Witness ==
    /\ run.pc = "returned"
    /\ run.exit = "missing_credentials"
    /\ ~run.driver
    /\ run.events = <<"quit", "check_and_renew", "send">>

====
